---- MODULE Spec2Model ----
(***************************************************************************)
(* A model of the odf-benchmarker sweep runners.                           *)
(*                                                                         *)
(*   - SysbenchParser.parse_output (sysbench_parser.py)                    *)
(*   - CPUBenchmarker.run          (cpu_benchmarker.py)                    *)
(*   - StorageBenchmarker          (storage_benchmarker.py): mount_disk,   *)
(*     unmount_disk, sysbench_prepare / run / cleanup, run_all_tests       *)
(*                                                                         *)
(* Texts are sequences of lines, paths are sequences of characters, and    *)
(* every external call (subprocess.run, os.makedirs) has its outcome       *)
(* drawn from what the call can produce: success, a nonzero exit           *)
(* (CalledProcessError under check=True) or a failure to launch the        *)
(* process (an OSError such as FileNotFoundError).                         *)
(***************************************************************************)
EXTENDS Integers, Sequences, FiniteSets, TLC

VARIABLES
    runner,        \* which runner this behaviour exercises: "cpu" or "storage"
    \* ---- CPUBenchmarker ----
    cpuConfig,     \* self.config["parameters"]: sequence of parameter sets
    cpuPc,         \* "run" while inside run(), "done" once run() was left
    cpuIdx,        \* index of the next combination of the sweep
    cpuResults,    \* self.results
    cpuParser,     \* self.parser: whether one was built, and the data of the last one
    cpuInvoked,    \* history: the sysbench invocations made, with their outcome
    cpuExc,        \* "none", or the exception that left run()
    \* ---- StorageBenchmarker ----
    stConfig,      \* self.config: disks, blocksizes, workloads, threads, flags
    mount_base,    \* self.mount_base
    mount_points,  \* self.mount_points: insertion-ordered dict, as <<key, value>> pairs
    results,       \* self.results
    stPc,          \* "mount", "prepare", "run", "cleanup", "unmount", "done"
    stIdx,         \* index into disks / combinations / mount_points of the next step
    stExc,         \* "none", or the exception in flight (finally) or that left run_all_tests
    active,        \* operating system: the set of paths that are active mounts
    calls,         \* history: method entries and external tool invocations, in order
    lastStep,      \* history: the step taken last and how its external call ended
    raisedIn,      \* history: the steps of run_all_tests that raised an exception
    mountedByRun,  \* history: the mount points this run mounted itself
    lastMount,     \* history: the last mount_disk call, how its calls ended, its result
    allOk,         \* history: os.makedirs and every external call so far succeeded
    active0,       \* history: the paths that were active mounts before the run
    \* ---- the other objects ----
    parserObj,     \* a SysbenchParser: text_output, data, and where parse_output is
    net,           \* the NetworkBenchmarker: its fields, the place of run(), its log
    mainProc,      \* main() of benchmarker.py: its place, the tables, df
    cpuView,       \* what CPUBenchmarker.get_resutls_df last did
    stView,        \* what StorageBenchmarker.get_results_dataframe last did
    prior          \* the run() calls made on the instance, self.results at the last call

vars == <<runner, cpuConfig, cpuPc, cpuIdx, cpuResults, cpuParser,
          cpuInvoked, cpuExc, stConfig, mount_base, mount_points, results,
          stPc, stIdx, stExc, active, calls, lastStep, raisedIn, mountedByRun,
          lastMount, allOk, active0,
          parserObj, net, mainProc, cpuView, stView, prior>>

cpuVars == <<cpuConfig, cpuPc, cpuIdx, cpuResults, cpuParser,
             cpuInvoked, cpuExc>>

stVars == <<stConfig, mount_base, mount_points, results, stPc, stIdx, stExc,
            active, calls, lastStep, raisedIn, mountedByRun,
            lastMount, allOk, active0>>

restVars == <<parserObj, net, mainProc, cpuView, stView, prior>>

(***************************************************************************)
(* Bounds of the model.                                                    *)
(***************************************************************************)
MaxDisks == 2        \* longest disks list
MaxCombos == 4       \* most combinations in one storage sweep
MaxCpuCombos == 3    \* most combinations in one CPU sweep
MaxParamSets == 2    \* longest "parameters" list

(***************************************************************************)
(* Generic helpers.                                                        *)
(***************************************************************************)
Range(s) == {s[i] : i \in 1..Len(s)}

SeqsUpTo(S, n) == UNION {[1..k -> S] : k \in 1..n}

RECURSIVE Concat(_)
Concat(ss) == IF ss = <<>> THEN <<>> ELSE Head(ss) \o Concat(Tail(ss))

(***************************************************************************)
(* Outcomes of a subprocess.run(..., check=True) call.                     *)
(*   "ok"      the process ran and exited 0                                *)
(*   "nonzero" the process exited nonzero: CalledProcessError              *)
(*   "launch"  the process could not be started: OSError                   *)
(***************************************************************************)
Outcomes == {"ok", "nonzero", "launch"}

(***************************************************************************)
(* Texts.  A text is a sequence of lines; a line is a label, the numeric   *)
(* literals that follow "label:" (two of them in the "a/b" form of the     *)
(* avg/stddev lines) and the characters right after the first literal.     *)
(* A literal is [kind |-> "int" or "dec", whole |-> n, frac |-> n].        *)
(***************************************************************************)
Lit(kind, whole, frac) == [kind |-> kind, whole |-> whole, frac |-> frac]

Line(label, lits, sfx) == [label |-> label, lits |-> lits, sfx |-> sfx]

\* "marker" in text_output
Contains(text, marker) == \E i \in 1..Len(text) : text[i].label = marker

\* float(g) if '.' in g else int(g)
ToNumber(lit) ==
    IF lit.kind = "dec"
    THEN [type |-> "float", whole |-> lit.whole, frac |-> lit.frac]
    ELSE [type |-> "int", whole |-> lit.whole, frac |-> 0]

(***************************************************************************)
(* The regular expressions of the two field tables, by what they capture:  *)
(*   "dec"    label:\s+(\d+\.\d+)       then the suffix sfx, if any        *)
(*   "digits" label:\s+(\d+)            the leading digits of the literal  *)
(*   "second" label:\s+\d+\.\d+/([\d\.]+)  the literal after the slash     *)
(***************************************************************************)
Pat(key, label, cap, sfx) == [key |-> key, label |-> label, cap |-> cap, sfx |-> sfx]

FileioPatterns == {
    Pat("reads/s", "reads/s", "dec", ""),
    Pat("writes/s", "writes/s", "dec", ""),
    Pat("fsyncs/s", "fsyncs/s", "dec", ""),
    Pat("read_mib/s", "read, MiB/s", "dec", ""),
    Pat("written_mib/s", "written, MiB/s", "dec", ""),
    Pat("total_time", "total time", "dec", "s"),
    Pat("total_events", "total number of events", "digits", ""),
    Pat("latency_min", "min", "dec", ""),
    Pat("latency_avg", "avg", "dec", ""),
    Pat("latency_max", "max", "dec", ""),
    Pat("latency_95th", "95th percentile", "dec", ""),
    Pat("latency_sum", "sum", "dec", ""),
    Pat("events_avg", "events (avg/stddev)", "dec", ""),
    Pat("events_stddev", "events (avg/stddev)", "second", ""),
    Pat("execution_time_avg", "execution time (avg/stddev)", "dec", ""),
    Pat("execution_time_stddev", "execution time (avg/stddev)", "second", "") }

CpuPatterns == {
    Pat("events_per_second", "events per second", "dec", ""),
    Pat("total_time", "total time", "dec", "s"),
    Pat("total_events", "total number of events", "digits", ""),
    Pat("latency_min", "min", "dec", ""),
    Pat("latency_avg", "avg", "dec", ""),
    Pat("latency_max", "max", "dec", ""),
    Pat("latency_95th", "95th percentile", "dec", ""),
    Pat("latency_sum", "sum", "dec", "") }

\* Does the pattern match at this line?
LineMatches(pat, line) ==
    /\ line.label = pat.label
    /\ Len(line.lits) >= 1
    /\ CASE pat.cap = "dec" ->
              /\ line.lits[1].kind = "dec"
              /\ (pat.sfx # "" => (Len(line.lits) = 1 /\ line.sfx = pat.sfx))
         [] pat.cap = "digits" -> TRUE
         [] pat.cap = "second" ->
              /\ line.lits[1].kind = "dec"
              /\ Len(line.lits) >= 2

\* match.group(1) of a matching line, converted
Captured(pat, line) ==
    CASE pat.cap = "dec" -> ToNumber(line.lits[1])
      [] pat.cap = "digits" -> [type |-> "int", whole |-> line.lits[1].whole, frac |-> 0]
      [] pat.cap = "second" -> ToNumber(line.lits[2])

\* re.search: the first place of the text where the pattern matches
MatchIndex(pat, text) ==
    LET hits == {i \in 1..Len(text) : LineMatches(pat, text[i])}
    IN  IF hits = {} THEN 0 ELSE CHOOSE i \in hits : \A j \in hits : i <= j

\* the loop "for key, pattern in patterns.items()" of both _parse_* methods
ExtractFields(patterns, text) ==
    LET found == {p \in patterns : MatchIndex(p, text) # 0}
        PatOf(k) == CHOOSE p \in found : p.key = k
    IN  [k \in {p.key : p \in found} |->
            Captured(PatOf(k), text[MatchIndex(PatOf(k), text)])]

_parse_fileio_output(text) == ExtractFields(FileioPatterns, text)

_parse_cpu_output(text) == ExtractFields(CpuPatterns, text)

EmptyDict == <<>>

\* parse_output that looks for the CPU markers first
parse_output_CpuFirst(text) ==
    IF Contains(text, "CPU speed") \/ Contains(text, "events per second")
    THEN [raised |-> FALSE, data |-> _parse_cpu_output(text)]
    ELSE IF Contains(text, "File operations")
    THEN [raised |-> FALSE, data |-> _parse_fileio_output(text)]
    ELSE [raised |-> TRUE, data |-> EmptyDict]

\* parse_output that takes a text without marker for CPU output
parse_output_CpuByDefault(text) ==
    IF Contains(text, "File operations")
    THEN [raised |-> FALSE, data |-> _parse_fileio_output(text)]
    ELSE [raised |-> FALSE, data |-> _parse_cpu_output(text)]

\* SysbenchParser.parse_output: the data mapping, or ValueError raised
parse_output(text) ==
    IF Contains(text, "File operations")
    THEN [raised |-> FALSE, data |-> _parse_fileio_output(text)]
    ELSE IF Contains(text, "CPU speed") \/ Contains(text, "events per second")
    THEN [raised |-> FALSE, data |-> _parse_cpu_output(text)]
    ELSE [raised |-> TRUE, data |-> EmptyDict]

\* dict.update: the entries of upd replace or extend those of d
Update(d, upd) == upd @@ d

(***************************************************************************)
(* Sample tool outputs.                                                    *)
(***************************************************************************)
CpuText == <<
    Line("CPU speed", <<>>, ""),
    Line("events per second", <<Lit("dec", 853267, 75)>>, ""),
    Line("total number of events", <<Lit("int", 8537887, 0)>>, "") >>

FileioText == <<
    Line("File operations", <<>>, ""),
    Line("writes/s", <<Lit("dec", 29718, 9)>>, ""),
    Line("total time", <<Lit("dec", 10, 9)>>, "s") >>

\* what a failing tool prints: no schema marker in it
ErrorText == << Line("FATAL", <<>>, "") >>

EmptyText == <<>>

(***************************************************************************)
(* CPUBenchmarker                                                          *)
(***************************************************************************)
\* a "cpu-max-prime" entry of a parameter set: a list, a bare value, or absent
PrimeList(seq) == [kind |-> "list", v |-> seq]
PrimeScalar(n) == [kind |-> "scalar", v |-> <<n>>]
PrimeMissing == [kind |-> "missing", v |-> <<>>]

DefaultCpuMaxPrime == 10000

\* cpu_max_primes that takes the default for a value that is not a list
cpu_max_primes_ScalarDropped(param_set) ==
    IF param_set.prime.kind = "list" THEN param_set.prime.v
    ELSE <<DefaultCpuMaxPrime>>

\* param_set.get("cpu-max-prime", [10000]), made a list when it is not one
cpu_max_primes(param_set) ==
    IF param_set.prime.kind = "missing" THEN <<DefaultCpuMaxPrime>>
    ELSE IF param_set.prime.kind = "list" THEN param_set.prime.v
    ELSE <<param_set.prime.v[1]>>

\* itertools.product(xs, ys): xs varies slowest
RECURSIVE Product2(_, _)
Product2(xs, ys) ==
    IF xs = <<>> THEN <<>>
    ELSE [j \in 1..Len(ys) |-> <<Head(xs), ys[j]>>] \o Product2(Tail(xs), ys)

\* the combinations of one parameter set, in the order run() visits them
ParamSetCombos(param_set) == Product2(param_set.threads, cpu_max_primes(param_set))

\* the two nested loops of run(): every parameter set in turn
CpuCombos(parameters) ==
    Concat([s \in 1..Len(parameters) |-> ParamSetCombos(parameters[s])])

CpuTags(combo) == ("threads" :> combo[1]) @@ ("cpu-max-prime" :> combo[2])

CpuParamSets ==
    [threads : {<<>>, <<1>>, <<1, 2>>},
     prime : {PrimeMissing, PrimeScalar(20000), PrimeList(<<20000>>),
              PrimeList(<<10000, 20000>>)}]

CpuConfigs ==
    {c \in {<<>>} \cup SeqsUpTo(CpuParamSets, MaxParamSets) :
        Len(CpuCombos(c)) <= MaxCpuCombos}

\* what sysbench cpu may print on stdout when it exits 0, on stderr when it fails
CpuStdouts == {CpuText, ErrorText}
CpuStderrs == {ErrorText, EmptyText, CpuText}

\* the except clause of run(): the exceptions of the try body it handles
CpuCaught(outcome) == outcome = "nonzero"

\* One pass of the loop body of run(): invoke sysbench, parse, tag, append.
CpuInvoke ==
    /\ runner = "cpu"
    /\ cpuPc = "run"
    /\ cpuIdx <= Len(CpuCombos(cpuConfig))
    /\ \E outcome \in Outcomes, out \in CpuStdouts \cup CpuStderrs :
        LET combo == CpuCombos(cpuConfig)[cpuIdx]
            parsed == parse_output(out)
        IN  /\ outcome = "ok" => out \in CpuStdouts
            /\ outcome = "nonzero" => out \in CpuStderrs
            /\ outcome = "launch" => out = EmptyText
            /\ cpuInvoked' = Append(cpuInvoked,
                   [threads |-> combo[1], prime |-> combo[2],
                    outcome |-> outcome, out |-> out])
            /\ IF outcome = "ok" \/ CpuCaught(outcome)
               THEN \* parse_sysbench_output(result.stdout) or (e.stderr)
                    IF parsed.raised
                    THEN /\ cpuParser' = [built |-> TRUE, data |-> EmptyDict]
                         /\ cpuExc' = "ValueError"
                         /\ cpuPc' = "done"
                         /\ UNCHANGED <<cpuResults, cpuIdx>>
                    ELSE /\ cpuParser' = [built |-> TRUE,
                                          data |-> Update(parsed.data, CpuTags(combo))]
                         /\ cpuResults' = Append(cpuResults,
                                                 Update(parsed.data, CpuTags(combo)))
                         /\ cpuIdx' = cpuIdx + 1
                         /\ UNCHANGED <<cpuExc, cpuPc>>
               ELSE \* the exception is not a CalledProcessError: it leaves run()
                    /\ cpuExc' = "OSError"
                    /\ cpuPc' = "done"
                    /\ UNCHANGED <<cpuResults, cpuIdx, cpuParser>>
    /\ UNCHANGED <<runner, cpuConfig>>
    /\ UNCHANGED stVars
    /\ UNCHANGED restVars

\* the loops are exhausted: return pd.DataFrame(self.results)
CpuReturn ==
    /\ runner = "cpu"
    /\ cpuPc = "run"
    /\ cpuIdx > Len(CpuCombos(cpuConfig))
    /\ cpuPc' = "done"
    /\ UNCHANGED <<runner, cpuConfig, cpuIdx, cpuResults, cpuParser, cpuInvoked, cpuExc>>
    /\ UNCHANGED stVars
    /\ UNCHANGED restVars

NextCPU == CpuInvoke \/ CpuReturn

(***************************************************************************)
(* Paths, as sequences of characters.                                      *)
(***************************************************************************)
\* str.startswith
startswith(str, prefix) ==
    /\ Len(prefix) <= Len(str)
    /\ SubSeq(str, 1, Len(prefix)) = prefix

\* os.path.basename: what follows the last slash
basename(path) ==
    LET slashes == {i \in 1..Len(path) : path[i] = "/"}
        last == IF slashes = {} THEN 0
                ELSE CHOOSE i \in slashes : \A j \in slashes : j <= i
    IN  SubSeq(path, last + 1, Len(path))

\* os.path.join(a, b)
join(a, b) ==
    IF b # <<>> /\ b[1] = "/" THEN b
    ELSE IF a = <<>> \/ a[Len(a)] = "/" THEN a \o b
    ELSE a \o <<"/">> \o b

\* mount_base or "/mnt/benchmark"; the model's base directory is "/m"
DefaultMountBase == <<"/", "m">>

\* a mount_base given by the caller: the root directory
RootMountBase == <<"/">>

MountBases == {DefaultMountBase, RootMountBase}

DevA == <<"/", "d", "/", "a">>
DevB == <<"/", "d", "/", "b">>
\* another device with the base name of DevA
DevA2 == <<"/", "e", "/", "a">>

Devices == {DevA, DevB, DevA2}

(***************************************************************************)
(* self.mount_points: a dict, kept as the sequence of its <<key, value>>   *)
(* items in insertion order.                                               *)
(***************************************************************************)
DictKeys(d) == {d[i][1] : i \in 1..Len(d)}

DictIndex(d, key) == CHOOSE i \in 1..Len(d) : d[i][1] = key

\* d.get(key, default)
DictGet(d, key, default) ==
    IF key \in DictKeys(d) THEN d[DictIndex(d, key)][2] ELSE default

\* d[key] = value: a key already present keeps its place
DictSet(d, key, value) ==
    IF key \in DictKeys(d)
    THEN [d EXCEPT ![DictIndex(d, key)] = <<key, value>>]
    ELSE Append(d, <<key, value>>)

(***************************************************************************)
(* StorageBenchmarker                                                      *)
(***************************************************************************)
Call(op, dev, path, k) == [op |-> op, dev |-> dev, path |-> path, k |-> k]

Step(op, k, outcome) == [op |-> op, k |-> k, outcome |-> outcome]

\* the path mount_disk mounts a device on
MountPointOf(base, device_path) == join(base, basename(device_path))

\* what is kept of a mount_disk call: whether os.makedirs succeeded, how each
\* tool it invoked ended ("none" for a tool it did not invoke), what it
\* returned or raised
MountRecord(dev, mkdirOk, probe, mkfs, mnt, r) ==
    [dev |-> dev, mkdir |-> mkdirOk,
     probe |-> IF Len(r.tools) >= 1 THEN probe ELSE "none",
     mkfs |-> IF Len(r.tools) >= 2 THEN mkfs ELSE "none",
     mnt |-> IF Len(r.tools) >= 3 THEN mnt ELSE "none",
     ret |-> r.ret, raised |-> r.raised]

NoMount ==
    [dev |-> <<>>, mkdir |-> TRUE, probe |-> "none", mkfs |-> "none",
     mnt |-> "none", ret |-> <<>>, raised |-> "none"]

(***************************************************************************)
(* mount_disk(device_path).  mkdirOk: os.makedirs did not raise OSError;   *)
(* probe, mkfs, mnt: how launching mountpoint, mkfs.ext4 and mount ends    *)
(* (mountpoint -q, once launched, exits 0 exactly on an active mount).     *)
(* Result: the value returned, or the exception that leaves mount_disk,    *)
(* the external calls made and the active mounts afterwards.               *)
(* A call is logged as [op, dev, path, k]: for a tool its arguments, for   *)
(* mountpoint also its return code k, for mount_disk the value returned,   *)
(* for the steps of the sweep the working directory and the combination.   *)
(***************************************************************************)
\* the two except clauses of mount_disk catch CalledProcessError only
MountCaught(outcome) == outcome = "nonzero"

\* mount_disk without the "already mounted" return of lines 45-47
mount_disk_NoProbeCheck(base, act, device_path, mkdirOk, probe, mkfs, mnt) ==
    LET mount_point == MountPointOf(base, device_path)
        rc == IF probe = "launch" THEN -1 ELSE IF mount_point \in act THEN 0 ELSE 1
        cProbe == Call("mountpoint", device_path, mount_point, rc)
        cMkfs == Call("mkfs.ext4", device_path, mount_point, 0)
        cMount == Call("mount", device_path, mount_point, 0)
        Ret(v, cs, a) == [raised |-> "none", ret |-> v, tools |-> cs, active |-> a]
        Raise(cs) == [raised |-> "OSError", ret |-> <<>>, tools |-> cs, active |-> act]
    IN  IF ~mkdirOk THEN Ret(device_path, <<>>, act)
        ELSE IF probe = "launch" THEN Raise(<<cProbe>>)
        ELSE IF mkfs # "ok" /\ ~MountCaught(mkfs) THEN Raise(<<cProbe, cMkfs>>)
        ELSE IF mnt = "ok"
             THEN Ret(mount_point, <<cProbe, cMkfs, cMount>>, act \cup {mount_point})
        ELSE IF MountCaught(mnt) THEN Ret(device_path, <<cProbe, cMkfs, cMount>>, act)
        ELSE Raise(<<cProbe, cMkfs, cMount>>)

\* mount_disk returning the device path when it finds the mount point active
mount_disk_ReuseReturnsDevice(base, act, device_path, mkdirOk, probe, mkfs, mnt) ==
    LET mount_point == MountPointOf(base, device_path)
        r == mount_disk_NoProbeCheck(base, act, device_path, mkdirOk, probe, mkfs, mnt)
    IN  IF mkdirOk /\ probe # "launch" /\ mount_point \in act
        THEN [raised |-> "none", ret |-> device_path,
              tools |-> <<Call("mountpoint", device_path, mount_point, 0)>>,
              active |-> act]
        ELSE r

\* mount_disk probing the mount point before it looks at the directory
mount_disk_ProbeBeforeMkdir(base, act, device_path, mkdirOk, probe, mkfs, mnt) ==
    LET mount_point == MountPointOf(base, device_path)
        r == mount_disk_NoProbeCheck(base, act, device_path, TRUE, probe, mkfs, mnt)
        rc == IF probe = "launch" THEN -1 ELSE IF mount_point \in act THEN 0 ELSE 1
    IN  IF mkdirOk
        THEN IF probe # "launch" /\ mount_point \in act
             THEN [raised |-> "none", ret |-> mount_point,
                   tools |-> <<Call("mountpoint", device_path, mount_point, 0)>>,
                   active |-> act]
             ELSE r
        ELSE [raised |-> "none", ret |-> device_path,
              tools |-> <<Call("mountpoint", device_path, mount_point, rc)>>,
              active |-> act]

mount_disk(base, act, device_path, mkdirOk, probe, mkfs, mnt) ==
    LET mount_point == MountPointOf(base, device_path)
        \* the probe's return code, -1 when mountpoint could not be launched
        rc == IF probe = "launch" THEN -1 ELSE IF mount_point \in act THEN 0 ELSE 1
        cProbe == Call("mountpoint", device_path, mount_point, rc)
        cMkfs == Call("mkfs.ext4", device_path, mount_point, 0)
        cMount == Call("mount", device_path, mount_point, 0)
        Ret(v, cs, a) == [raised |-> "none", ret |-> v, tools |-> cs, active |-> a]
        Raise(cs) == [raised |-> "OSError", ret |-> <<>>, tools |-> cs, active |-> act]
    IN  IF ~mkdirOk THEN Ret(device_path, <<>>, act)
        ELSE IF probe = "launch" THEN Raise(<<cProbe>>)
        ELSE IF rc = 0 THEN Ret(mount_point, <<cProbe>>, act)
        ELSE IF mkfs # "ok" /\ ~MountCaught(mkfs) THEN Raise(<<cProbe, cMkfs>>)
        ELSE IF mnt = "ok"
             THEN Ret(mount_point, <<cProbe, cMkfs, cMount>>, act \cup {mount_point})
        ELSE IF MountCaught(mnt) THEN Ret(device_path, <<cProbe, cMkfs, cMount>>, act)
        ELSE Raise(<<cProbe, cMkfs, cMount>>)

\* unmount_disk that never invokes umount
unmount_disk_NoUmount(base, act, mount_point, outcome) ==
    [raised |-> "none", tools |-> <<>>, active |-> act]

\* the except clause of unmount_disk
UnmountCaught(outcome) == outcome = "nonzero"

\* unmount_disk(mount_point), umount ending with the given outcome
unmount_disk(base, act, mount_point, outcome) ==
    IF startswith(mount_point, base)
    THEN [raised |-> IF outcome = "ok" \/ UnmountCaught(outcome) THEN "none" ELSE "OSError",
          tools |-> <<Call("umount", <<>>, mount_point, 0)>>,
          active |-> IF outcome = "ok" THEN act \ {mount_point} ELSE act]
    ELSE [raised |-> "none", tools |-> <<>>, active |-> act]

\* itertools.product(disks, blocksizes, workloads, threads, flags): disks slowest
RECURSIVE Product5(_, _, _, _, _)
Product5(ds, bs, ws, ts, fs) ==
    IF ds = <<>> THEN <<>>
    ELSE LET n == Len(bs) * Len(ws) * Len(ts) * Len(fs)
             At(i) == i - 1
         IN  [i \in 1..n |->
                 [disk |-> Head(ds),
                  blocksize |-> bs[(At(i) \div (Len(ws) * Len(ts) * Len(fs))) + 1],
                  workload |-> ws[((At(i) \div (Len(ts) * Len(fs))) % Len(ws)) + 1],
                  threads |-> ts[((At(i) \div Len(fs)) % Len(ts)) + 1],
                  flags |-> fs[(At(i) % Len(fs)) + 1]]]
             \o Product5(Tail(ds), bs, ws, ts, fs)

\* A value of the configuration that a loop iterates: a list, or a bare
\* string.  Strings are sequences of characters.
AxisList(seq) == [kind |-> "list", v |-> seq]
AxisStr(chars) == [kind |-> "str", v |-> chars]

\* iter(x): the elements of a list, the characters of a string
Iter(x) ==
    IF x.kind = "list" THEN x.v ELSE [i \in 1..Len(x.v) |-> <<x.v[i]>>]

Combos(config) ==
    Product5(config.disks, Iter(config.blocksizes), config.workloads,
             config.threads, config.flags)

\* tags that name the mount point where the device belongs
StTags_MountPointAsDisk(combo, mount_point) ==
    [disk |-> mount_point, mount_point |-> mount_point, blocksize |-> combo.blocksize,
     workload |-> combo.workload, threads |-> combo.threads,
     flags |-> combo.flags["file-extra-flags"]]

\* the tags sysbench_run adds to a parsed record
StTags(combo, mount_point) ==
    [disk |-> combo.disk, mount_point |-> mount_point, blocksize |-> combo.blocksize,
     workload |-> combo.workload, threads |-> combo.threads,
     flags |-> combo.flags["file-extra-flags"]]

Block4k == <<"4", "k">>
Block16k == <<"1", "6", "k">>

StConfigs ==
    {c \in [disks : SeqsUpTo(Devices, MaxDisks),
            blocksizes : {AxisList(<<Block4k>>), AxisList(<<Block4k, Block16k>>),
                          AxisStr(Block4k)},
            workloads : {<<"seqwr">>},
            threads : {<<4>>},
            flags : {<<("file-extra-flags" :> "dsync")>>}] :
        Len(Combos(c)) <= MaxCombos}

\* what sysbench fileio run may print on stdout when it exits 0
StStdouts == {FileioText, ErrorText}

\* where run_all_tests goes once the loop over mount_points.items() is at item j
UnmountAt(j, mps, exc) ==
    IF j <= Len(mps) THEN <<"unmount", j>> ELSE <<"done", 0>>

\* where run_all_tests goes once the sweep is at combination k
SweepAt(k, config, mps) ==
    IF k <= Len(Combos(config)) THEN <<"prepare", k>> ELSE UnmountAt(1, mps, "none")

\* a sweep that starts as soon as the first disk is mounted
AfterMountFirstOnly(i, config, mps) == SweepAt(1, config, mps)

\* where run_all_tests goes after mount_disk returned for disks[i]
AfterMount(i, config, mps) ==
    IF i < Len(config.disks) THEN <<"mount", i + 1>> ELSE SweepAt(1, config, mps)

\* where an exception raised by mount_disk in the mount loop goes: that loop
\* stands before the try statement, so the exception leaves run_all_tests
MountRaised(mps) == <<"done", 0>>

\* where an exception raised inside the try body goes: to the finally clause
SweepRaised(mps) == UnmountAt(1, mps, "raised")

\* the objects a behaviour does not exercise
IdleParser == [pc |-> "idle", text_output |-> <<>>, data |-> <<>>]

IdleNet == [pc |-> "idle"]

IdleMain == [pc |-> "idle"]

\* the first run() call on an instance: self.results is as __init__ left it
Prior(runs, rows) == [runs |-> runs, rows |-> rows]

NoPrior == Prior(1, <<>>)

\* a tabular view that was never asked for
View(at, result, rows) == [at |-> at, result |-> result, rows |-> rows]

NoView == View("never", "none", <<>>)

InitCPU ==
    /\ runner = "cpu"
    /\ cpuConfig \in CpuConfigs
    /\ cpuPc = "run"
    /\ cpuIdx = 1
    /\ cpuResults = <<>>
    /\ cpuParser = [built |-> FALSE, data |-> EmptyDict]
    /\ cpuInvoked = <<>>
    /\ cpuExc = "none"
    \* the storage runner is not exercised
    /\ stConfig = [disks |-> <<>>, blocksizes |-> AxisList(<<>>), workloads |-> <<>>,
                   threads |-> <<>>, flags |-> <<>>]
    /\ mount_base = DefaultMountBase
    /\ mount_points = <<>>
    /\ results = <<>>
    /\ stPc = "idle"
    /\ stIdx = 0
    /\ stExc = "none"
    /\ active = {}
    /\ calls = <<>>
    /\ lastStep = [op |-> "none", k |-> 0, outcome |-> "ok"]
    /\ raisedIn = {}
    /\ mountedByRun = {}
    /\ lastMount = NoMount
    /\ allOk = TRUE
    /\ active0 = {}
    /\ parserObj = IdleParser
    /\ net = IdleNet
    /\ mainProc = IdleMain
    /\ cpuView = NoView
    /\ stView = NoView
    /\ prior = NoPrior

InitStorage ==
    /\ runner = "storage"
    /\ stConfig \in StConfigs
    /\ mount_base \in MountBases
    /\ mount_points = <<>>
    /\ results = <<>>
    /\ stPc = "mount"
    /\ stIdx = 1
    /\ stExc = "none"
    /\ active \in SUBSET {MountPointOf(mount_base, DevA)}
    /\ active0 = active
    /\ calls = <<>>
    /\ lastStep = Step("none", 0, "ok")
    /\ raisedIn = {}
    /\ mountedByRun = {}
    /\ lastMount = NoMount
    /\ allOk = TRUE
    \* the CPU runner is not exercised
    /\ cpuConfig = <<>>
    /\ cpuPc = "idle"
    /\ cpuIdx = 0
    /\ cpuResults = <<>>
    /\ cpuParser = [built |-> FALSE, data |-> EmptyDict]
    /\ cpuInvoked = <<>>
    /\ cpuExc = "none"
    /\ parserObj = IdleParser
    /\ net = IdleNet
    /\ mainProc = IdleMain
    /\ cpuView = NoView
    /\ stView = NoView
    /\ prior = NoPrior

\* One pass of the loop "for disk_config in disks" of run_all_tests:
\* mount_disk(disk_path), then self.mount_points[disk_path] = mount_point.
MountOne ==
    /\ runner = "storage"
    /\ stPc = "mount"
    /\ \E mkdirOk \in BOOLEAN, probe \in {"ok", "launch"}, mkfs \in Outcomes, mnt \in Outcomes :
        LET disk_path == stConfig.disks[stIdx]
            r == mount_disk(mount_base, active, disk_path, mkdirOk, probe, mkfs, mnt)
            mps == DictSet(mount_points, disk_path, r.ret)
        IN  /\ calls' = calls \o <<Call("mount_disk", disk_path, r.ret, stIdx)>> \o r.tools
            /\ active' = r.active
            /\ mountedByRun' = mountedByRun \cup (r.active \ active)
            /\ lastMount' = MountRecord(disk_path, mkdirOk, probe, mkfs, mnt, r)
            /\ allOk' = (allOk /\ lastMount'.mkdir
                         /\ lastMount'.probe \in {"none", "ok"}
                         /\ lastMount'.mkfs \in {"none", "ok"}
                         /\ lastMount'.mnt \in {"none", "ok"})
            /\ raisedIn' = IF r.raised = "none" THEN raisedIn ELSE raisedIn \cup {"mount_disk"}
            /\ IF r.raised = "none"
               THEN /\ mount_points' = mps
                    /\ stPc' = AfterMount(stIdx, stConfig, mps)[1]
                    /\ stIdx' = AfterMount(stIdx, stConfig, mps)[2]
                    /\ stExc' = "none"
                    /\ lastStep' = Step("mount_disk", stIdx,
                                        IF r.ret = disk_path THEN "fallback"
                                        ELSE IF Len(r.tools) = 1 THEN "reused" ELSE "mounted")
               ELSE /\ mount_points' = mount_points
                    /\ stPc' = MountRaised(mount_points)[1]
                    /\ stIdx' = MountRaised(mount_points)[2]
                    /\ stExc' = r.raised
                    /\ lastStep' = Step("mount_disk", stIdx, "raised")
    /\ UNCHANGED <<runner, stConfig, mount_base, results, active0>>
    /\ UNCHANGED cpuVars
    /\ UNCHANGED restVars

\* an except clause that lets the nonzero exit through
SysbenchCaughtNothing(outcome) == FALSE

\* the except clause shared by sysbench_prepare, sysbench_run, sysbench_cleanup
SysbenchCaught(outcome) == outcome = "nonzero"

\* sysbench_prepare for combination stIdx
SysbenchPrepare ==
    /\ runner = "storage"
    /\ stPc = "prepare"
    /\ \E outcome \in Outcomes :
        LET combo == Combos(stConfig)[stIdx]
            mount_point == DictGet(mount_points, combo.disk, combo.disk)
        IN  /\ calls' = Append(calls, Call("prepare", combo.disk, mount_point, stIdx))
            /\ lastStep' = Step("prepare", stIdx, outcome)
            /\ allOk' = (allOk /\ outcome = "ok")
            /\ IF outcome = "ok" \/ SysbenchCaught(outcome)
               THEN /\ stPc' = "run"
                    /\ UNCHANGED <<stIdx, stExc, raisedIn>>
               ELSE /\ stPc' = SweepRaised(mount_points)[1]
                    /\ stIdx' = SweepRaised(mount_points)[2]
                    /\ stExc' = "OSError"
                    /\ raisedIn' = raisedIn \cup {"prepare"}
    /\ UNCHANGED <<runner, stConfig, mount_base, mount_points, results, active,
                   mountedByRun, lastMount, active0>>
    /\ UNCHANGED cpuVars
    /\ UNCHANGED restVars

\* sysbench_run for combination stIdx: invoke, parse stdout, tag, append
SysbenchRun ==
    /\ runner = "storage"
    /\ stPc = "run"
    /\ \E outcome \in Outcomes, out \in StStdouts :
        LET combo == Combos(stConfig)[stIdx]
            mount_point == DictGet(mount_points, combo.disk, combo.disk)
            parsed == parse_output(out)
        IN  /\ calls' = Append(calls, Call("run", combo.disk, mount_point, stIdx))
            /\ allOk' = (allOk /\ outcome = "ok")
            /\ IF outcome = "ok"
               THEN IF parsed.raised
                    THEN \* ValueError is not caught by sysbench_run
                         /\ lastStep' = Step("run", stIdx, "unparsed")
                         /\ stPc' = SweepRaised(mount_points)[1]
                         /\ stIdx' = SweepRaised(mount_points)[2]
                         /\ stExc' = "ValueError"
                         /\ raisedIn' = raisedIn \cup {"run"}
                         /\ UNCHANGED results
                    ELSE /\ lastStep' = Step("run", stIdx, "ok")
                         /\ results' = Append(results,
                                Update(parsed.data, StTags(combo, mount_point)))
                         /\ stPc' = "cleanup"
                         /\ UNCHANGED <<stIdx, stExc, raisedIn>>
               ELSE IF SysbenchCaught(outcome)
               THEN /\ lastStep' = Step("run", stIdx, outcome)
                    /\ stPc' = "cleanup"
                    /\ UNCHANGED <<stIdx, stExc, results, raisedIn>>
               ELSE /\ lastStep' = Step("run", stIdx, outcome)
                    /\ stPc' = SweepRaised(mount_points)[1]
                    /\ stIdx' = SweepRaised(mount_points)[2]
                    /\ stExc' = "OSError"
                    /\ raisedIn' = raisedIn \cup {"run"}
                    /\ UNCHANGED results
    /\ UNCHANGED <<runner, stConfig, mount_base, mount_points, active, mountedByRun,
                   lastMount, active0>>
    /\ UNCHANGED cpuVars
    /\ UNCHANGED restVars

\* sysbench_cleanup for combination stIdx, then on to the next combination
SysbenchCleanup ==
    /\ runner = "storage"
    /\ stPc = "cleanup"
    /\ \E outcome \in Outcomes :
        LET combo == Combos(stConfig)[stIdx]
            mount_point == DictGet(mount_points, combo.disk, combo.disk)
        IN  /\ calls' = Append(calls, Call("cleanup", combo.disk, mount_point, stIdx))
            /\ lastStep' = Step("cleanup", stIdx, outcome)
            /\ allOk' = (allOk /\ outcome = "ok")
            /\ IF outcome = "ok" \/ SysbenchCaught(outcome)
               THEN /\ stPc' = SweepAt(stIdx + 1, stConfig, mount_points)[1]
                    /\ stIdx' = SweepAt(stIdx + 1, stConfig, mount_points)[2]
                    /\ UNCHANGED <<stExc, raisedIn>>
               ELSE /\ stPc' = SweepRaised(mount_points)[1]
                    /\ stIdx' = SweepRaised(mount_points)[2]
                    /\ stExc' = "OSError"
                    /\ raisedIn' = raisedIn \cup {"cleanup"}
    /\ UNCHANGED <<runner, stConfig, mount_base, mount_points, results, active,
                   mountedByRun, lastMount, active0>>
    /\ UNCHANGED cpuVars
    /\ UNCHANGED restVars

\* One pass of the loop of the finally clause: unmount_disk(mount_point) for
\* item stIdx of mount_points.  After the last item an exception in flight
\* leaves run_all_tests; an exception of unmount_disk leaves it at once.
UnmountOne ==
    /\ runner = "storage"
    /\ stPc = "unmount"
    /\ \E outcome \in Outcomes :
        LET mount_point == mount_points[stIdx][2]
            r == unmount_disk(mount_base, active, mount_point, outcome)
        IN  /\ calls' = calls \o <<Call("unmount_disk", mount_points[stIdx][1],
                                        mount_point, stIdx)>> \o r.tools
            /\ active' = r.active
            /\ allOk' = (allOk /\ (r.tools = <<>> \/ outcome = "ok"))
            /\ lastStep' = Step("unmount_disk", stIdx,
                                IF r.tools = <<>> THEN "skipped" ELSE outcome)
            /\ IF r.raised = "none"
               THEN /\ stPc' = UnmountAt(stIdx + 1, mount_points, stExc)[1]
                    /\ stIdx' = UnmountAt(stIdx + 1, mount_points, stExc)[2]
                    /\ UNCHANGED <<stExc, raisedIn>>
               ELSE /\ stPc' = "done"
                    /\ stIdx' = 0
                    /\ stExc' = r.raised
                    /\ raisedIn' = raisedIn \cup {"unmount_disk"}
    /\ UNCHANGED <<runner, stConfig, mount_base, mount_points, results, mountedByRun,
                   lastMount, active0>>
    /\ UNCHANGED cpuVars
    /\ UNCHANGED restVars

NextStorage ==
    \/ MountOne
    \/ SysbenchPrepare
    \/ SysbenchRun
    \/ SysbenchCleanup
    \/ UnmountOne

Init ==
    \/ InitCPU
    \/ InitStorage

Next ==
    \/ CpuInvoke
    \/ CpuReturn
    \/ MountOne
    \/ SysbenchPrepare
    \/ SysbenchRun
    \/ SysbenchCleanup
    \/ UnmountOne

\* both runners, one per behaviour
Spec == Init /\ [][Next]_vars

\* CPUBenchmarker.run alone
SpecCPU == InitCPU /\ [][NextCPU]_vars

\* StorageBenchmarker.run_all_tests alone
SpecStorage == InitStorage /\ [][NextStorage]_vars

(***************************************************************************)
(* SysbenchParser alone: one parser built on a text, then parse_output.    *)
(***************************************************************************)
MaxLines == 3        \* longest text handed to a parser

\* the lines a text is made of: the schema markers, labelled numeric lines
\* with and without a decimal point, and a line no pattern knows
ParserLines == {
    Line("File operations", <<>>, ""),
    Line("CPU speed", <<>>, ""),
    Line("events per second", <<Lit("dec", 853267, 75)>>, ""),
    Line("min", <<Lit("dec", 0, 1)>>, ""),
    Line("min", <<Lit("int", 5, 0)>>, ""),
    Line("total number of events", <<Lit("int", 8537887, 0)>>, ""),
    Line("total time", <<Lit("dec", 10, 9)>>, "s"),
    Line("reads/s", <<Lit("dec", 0, 0)>>, ""),
    Line("events (avg/stddev)", <<Lit("dec", 1, 5), Lit("dec", 0, 5)>>, ""),
    Line("FATAL", <<>>, "") }

ParserTexts == {EmptyText} \cup SeqsUpTo(ParserLines, MaxLines)

\* SysbenchParser(text_output): data starts empty
InitParser ==
    /\ runner = "parser"
    /\ parserObj \in [pc : {"new"}, text_output : ParserTexts, data : {EmptyDict}]
    /\ net = IdleNet
    /\ mainProc = IdleMain
    /\ cpuView = NoView
    /\ stView = NoView
    /\ prior = NoPrior
    /\ cpuConfig = <<>>
    /\ cpuPc = "idle"
    /\ cpuIdx = 0
    /\ cpuResults = <<>>
    /\ cpuParser = [built |-> FALSE, data |-> EmptyDict]
    /\ cpuInvoked = <<>>
    /\ cpuExc = "none"
    /\ stConfig = [disks |-> <<>>, blocksizes |-> AxisList(<<>>), workloads |-> <<>>,
                   threads |-> <<>>, flags |-> <<>>]
    /\ mount_base = DefaultMountBase
    /\ mount_points = <<>>
    /\ results = <<>>
    /\ stPc = "idle"
    /\ stIdx = 0
    /\ stExc = "none"
    /\ active = {}
    /\ calls = <<>>
    /\ lastStep = Step("none", 0, "ok")
    /\ raisedIn = {}
    /\ mountedByRun = {}
    /\ lastMount = NoMount
    /\ allOk = TRUE
    /\ active0 = {}

\* parser.parse_output(): self.data is filled and returned, or ValueError
\* leaves the method with self.data as it was
ParseOutput ==
    /\ runner = "parser"
    /\ parserObj.pc = "new"
    /\ LET r == parse_output(parserObj.text_output)
       IN  parserObj' = [parserObj EXCEPT
                            !.pc = IF r.raised THEN "raised" ELSE "returned",
                            !.data = IF r.raised THEN parserObj.data ELSE r.data]
    /\ UNCHANGED <<runner, net, mainProc, cpuView, stView, prior>>
    /\ UNCHANGED cpuVars
    /\ UNCHANGED stVars

NextParser == ParseOutput

SpecParser == InitParser /\ [][NextParser]_vars

(***************************************************************************)
(* NetworkBenchmarker.  A number is kept exactly, as [num, den]; a cell of  *)
(* a row that is None is NoneNum for a number and NoneStr for a string.    *)
(* Thread counts are kept as their decimal text.                           *)
(***************************************************************************)
MaxNetCalls == 4     \* most invocations in one network sweep

Num(n, d) == [num |-> n, den |-> d]

NoneNum == [num |-> 0, den |-> 0]

NoneStr == "None"

\* one row of results_df
NetRow(workload, interface, peer, threads, avg, p95, bandwidth) ==
    [workload |-> workload, interface |-> interface, peer |-> peer,
     threads |-> threads, avg_latency |-> avg, p95_latency |-> p95,
     bandwidth |-> bandwidth]

(***************************************************************************)
(* iperf3 output: a sequence of lines [tag, cols]; tag is "SUM" for a      *)
(* "[SUM]" line, cols are the <number, word> pairs that follow on the      *)
(* line, the number in hundredths.                                         *)
(***************************************************************************)
Col(fig, unit) == [fig |-> fig, unit |-> unit]

IperfLine(tag, cols) == [tag |-> tag, cols |-> cols]

\* the places of a line where \s+(\d+(\.\d+)?)\s+(Mbits|Gbits) matches
UnitCols(line) == {j \in 1..Len(line.cols) : line.cols[j].unit \in {"Mbits", "Gbits"}}

\* re.search(r'\[SUM\].*?\s+(\d+(\.\d+)?)\s+(Mbits|Gbits)', stdout): the
\* first "[SUM]" line on which the rest of the pattern matches, 0 for None
SumMatch(stdout) ==
    LET hits == {i \in 1..Len(stdout) : stdout[i].tag = "SUM" /\ UnitCols(stdout[i]) # {}}
    IN  IF hits = {} THEN 0 ELSE CHOOSE i \in hits : \A j \in hits : i <= j

\* the lazy .*? stops at the first pair of the line that fits
FirstUnitCol(line) == CHOOSE j \in UnitCols(line) : \A k \in UnitCols(line) : j <= k

\* lines 51-56: bandwidth, None without a match, times 1000 for Gbits
iperf_bandwidth(stdout) ==
    IF SumMatch(stdout) = 0 THEN NoneNum
    ELSE LET col == stdout[SumMatch(stdout)].cols[FirstUnitCol(stdout[SumMatch(stdout)])]
         IN  IF col.unit = "Gbits" THEN Num(col.fig * 1000, 100)
             ELSE Num(col.fig, 100)

(***************************************************************************)
(* ping / hping3 output: the sequence of its "time=" / "rtt=" samples, as  *)
(* literals in thousandths of a millisecond; re.findall with               *)
(* (\d+\.\d+) keeps the literals that have a decimal point.                *)
(***************************************************************************)
RECURSIVE rtt_values(_)
rtt_values(samples) ==
    IF samples = <<>> THEN <<>>
    ELSE IF Head(samples).kind = "dec"
    THEN <<Head(samples).whole * 1000 + Head(samples).frac>> \o rtt_values(Tail(samples))
    ELSE rtt_values(Tail(samples))

RECURSIVE SumSeq(_)
SumSeq(xs) == IF xs = <<>> THEN 0 ELSE Head(xs) + SumSeq(Tail(xs))

\* sorted(xs), by insertion
RECURSIVE Insert(_, _)
Insert(x, xs) ==
    IF xs = <<>> THEN <<x>>
    ELSE IF x <= Head(xs) THEN <<x>> \o xs
    ELSE <<Head(xs)>> \o Insert(x, Tail(xs))

RECURSIVE Sorted(_)
Sorted(xs) == IF xs = <<>> THEN <<>> ELSE Insert(Head(xs), Sorted(Tail(xs)))

\* np.mean, in thousandths
Mean(xs) == Num(SumSeq(xs), 1000 * Len(xs))

\* np.percentile(xs, 95): linear interpolation at rank 0.95 * (n - 1)
Percentile95(xs) ==
    LET s == Sorted(xs)
        pos == 95 * (Len(xs) - 1)
        k == (pos \div 100) + 1
        r == pos % 100
        hi == IF k < Len(s) THEN s[k + 1] ELSE s[k]
    IN  Num(100 * s[k] + r * (hi - s[k]), 100000)

(***************************************************************************)
(* How a subprocess.run(...) without check ends: [kind, stdout], kind      *)
(* "exit0", "nonzero", or "exception" when the call itself raises.         *)
(***************************************************************************)
Ended(kind, stdout) == [kind |-> kind, stdout |-> stdout]

\* an except clause that handles no exception
NetCaughtNothing(kind) == FALSE

\* the except clause of the three run_*_benchmark methods: except Exception
NetCaught(kind) == kind = "exception"

\* run_iperf_benchmark: the rows it appends, and whether it raises
run_iperf_benchmark(interface, peer, num_threads, end) ==
    IF end.kind = "exit0"
    THEN [raised |-> FALSE,
          rows |-> <<NetRow("iperf", interface, peer, num_threads,
                            NoneNum, NoneNum, iperf_bandwidth(end.stdout))>>]
    ELSE IF end.kind = "nonzero" THEN [raised |-> FALSE, rows |-> <<>>]
    ELSE [raised |-> ~NetCaught(end.kind), rows |-> <<>>]

\* run_ping_benchmark and run_hping_benchmark: they differ by the tool, the
\* sample pattern and the workload name of the row
LatencyBenchmark(workload, peer, end) ==
    IF end.kind = "exit0"
    THEN [raised |-> FALSE,
          rows |-> IF rtt_values(end.stdout) # <<>>
                   THEN <<NetRow(workload, NoneStr, peer, NoneStr,
                                 Mean(rtt_values(end.stdout)),
                                 Percentile95(rtt_values(end.stdout)), NoneNum)>>
                   ELSE <<>>]
    ELSE IF end.kind = "nonzero" THEN [raised |-> FALSE, rows |-> <<>>]
    ELSE [raised |-> ~NetCaught(end.kind), rows |-> <<>>]

run_ping_benchmark(peer, end) == LatencyBenchmark("ping", peer, end)

run_hping_benchmark(peer, end) == LatencyBenchmark("hping", peer, end)

\* one call run() makes: the tool and its arguments
Inv(tool, interface, peer, threads) ==
    [tool |-> tool, interface |-> interface, peer |-> peer, threads |-> threads]

\* the body of "for peer in self.peers" for one interface and one peer
PeerCalls(interface, peer, workloads, threads) ==
    (IF "iperf" \in workloads
     THEN [t \in 1..Len(threads) |-> Inv("iperf", interface, peer, threads[t])]
     ELSE <<>>)
    \o (IF "ping" \in workloads THEN <<Inv("ping", interface, peer, NoneStr)>> ELSE <<>>)
    \o (IF "hping3" \in workloads THEN <<Inv("hping", interface, peer, NoneStr)>> ELSE <<>>)

\* the calls of run(), in order: interfaces outermost, then peers
NetCalls(cfg) ==
    Concat([i \in 1..Len(cfg.interfaces) |->
        Concat([p \in 1..Len(cfg.peers) |->
            PeerCalls(cfg.interfaces[i], cfg.peers[p], cfg.workloads, cfg.threads)])])

NetConfigs ==
    {c \in [interfaces : {<<>>, <<"eth0">>, <<"eth0", "eth1">>},
            peers : {<<>>, <<"peer1">>, <<"peer1", "peer2">>},
            workloads : SUBSET {"iperf", "ping", "hping3"},
            threads : {<<"1">>, <<"1", "2">>}] :
        Len(NetCalls(c)) <= MaxNetCalls}

\* what iperf3 may print when it exits 0: a single [SUM] line in Mbits or in
\* Gbits, the [SUM] line of an interval before the [SUM] line of the whole
\* test, one in Kbits, and the output of a single stream (no [SUM] line)
IperfStdouts == {
    << IperfLine("SUM", <<Col(10000, "Mbits")>>) >>,
    << IperfLine("SUM", <<Col(110, "GBytes"), Col(250, "Gbits")>>) >>,
    << IperfLine("SUM", <<Col(11200, "MBytes"), Col(94200, "Mbits")>>),
       IperfLine("SUM", <<Col(110, "GBytes"), Col(94100, "Mbits")>>) >>,
    << IperfLine("SUM", <<Col(50000, "Kbits")>>) >>,
    << IperfLine("5", <<Col(94100, "Mbits")>>) >> }

\* what ping / hping3 may print when it exits 0: samples with a decimal
\* point, a sample without one, no sample
RttStdouts == {
    << Lit("dec", 0, 123) >>,
    << Lit("dec", 0, 456), Lit("dec", 0, 123) >>,
    << Lit("int", 123, 0) >>,
    << >> }

\* how the call of a tool may end
Endings(tool) ==
    {Ended("nonzero", <<>>), Ended("exception", <<>>)}
    \cup {Ended("exit0", out) : out \in IF tool = "iperf" THEN IperfStdouts ELSE RttStdouts}

\* the run_*_benchmark method that run() calls for a planned call
RunBenchmark(call, end) ==
    IF call.tool = "iperf"
    THEN run_iperf_benchmark(call.interface, call.peer, call.threads, end)
    ELSE IF call.tool = "ping" THEN run_ping_benchmark(call.peer, end)
    ELSE run_hping_benchmark(call.peer, end)

\* NetworkBenchmarker(config); run() is at its first call
InitNetwork ==
    /\ runner = "network"
    /\ \E c \in NetConfigs :
          net = [pc |-> "invoke", k |-> 1, config |-> c, results_df |-> <<>>,
                 log |-> <<>>, last |-> Ended("none", <<>>), exc |-> "none"]
    /\ parserObj = IdleParser
    /\ mainProc = IdleMain
    /\ cpuView = NoView
    /\ stView = NoView
    /\ prior = NoPrior
    /\ cpuConfig = <<>>
    /\ cpuPc = "idle"
    /\ cpuIdx = 0
    /\ cpuResults = <<>>
    /\ cpuParser = [built |-> FALSE, data |-> EmptyDict]
    /\ cpuInvoked = <<>>
    /\ cpuExc = "none"
    /\ stConfig = [disks |-> <<>>, blocksizes |-> AxisList(<<>>), workloads |-> <<>>,
                   threads |-> <<>>, flags |-> <<>>]
    /\ mount_base = DefaultMountBase
    /\ mount_points = <<>>
    /\ results = <<>>
    /\ stPc = "idle"
    /\ stIdx = 0
    /\ stExc = "none"
    /\ active = {}
    /\ calls = <<>>
    /\ lastStep = Step("none", 0, "ok")
    /\ raisedIn = {}
    /\ mountedByRun = {}
    /\ lastMount = NoMount
    /\ allOk = TRUE
    /\ active0 = {}

\* call k of run(): one run_*_benchmark method, from its subprocess.run to
\* the row it appends; an exception it lets through leaves run()
NetInvoke ==
    /\ runner = "network"
    /\ net.pc = "invoke"
    /\ net.k <= Len(NetCalls(net.config))
    /\ \E end \in Endings(NetCalls(net.config)[net.k].tool) :
        LET call == NetCalls(net.config)[net.k]
            r == RunBenchmark(call, end)
        IN  net' = [net EXCEPT
                       !.results_df = net.results_df \o r.rows,
                       !.log = Append(net.log, [ev |-> call.tool, k |-> net.k,
                                                kind |-> end.kind]),
                       !.last = end,
                       !.pc = IF r.raised THEN "done" ELSE "sleep",
                       !.exc = IF r.raised THEN "Exception" ELSE "none"]
    /\ UNCHANGED <<runner, parserObj, mainProc, cpuView, stView, prior>>
    /\ UNCHANGED cpuVars
    /\ UNCHANGED stVars

\* on to the next call without the delay
NetSleep_NoDelay ==
    /\ runner = "network"
    /\ net.pc = "sleep"
    /\ net' = [net EXCEPT !.k = net.k + 1, !.pc = "invoke"]
    /\ UNCHANGED <<runner, parserObj, mainProc, cpuView, stView, prior>>
    /\ UNCHANGED cpuVars
    /\ UNCHANGED stVars

\* time.sleep(5) after the call, then on to the next call
NetSleep ==
    /\ runner = "network"
    /\ net.pc = "sleep"
    /\ net' = [net EXCEPT
                  !.log = Append(net.log, [ev |-> "sleep", k |-> net.k, kind |-> "none"]),
                  !.k = net.k + 1,
                  !.pc = "invoke"]
    /\ UNCHANGED <<runner, parserObj, mainProc, cpuView, stView, prior>>
    /\ UNCHANGED cpuVars
    /\ UNCHANGED stVars

\* the loops are exhausted: return self.results_df
NetReturn ==
    /\ runner = "network"
    /\ net.pc = "invoke"
    /\ net.k > Len(NetCalls(net.config))
    /\ net' = [net EXCEPT !.pc = "done"]
    /\ UNCHANGED <<runner, parserObj, mainProc, cpuView, stView, prior>>
    /\ UNCHANGED cpuVars
    /\ UNCHANGED stVars

NextNetwork ==
    \/ NetInvoke
    \/ NetSleep
    \/ NetReturn

SpecNetwork == InitNetwork /\ [][NextNetwork]_vars

(***************************************************************************)
(* main(): the runners are run in turn and their tables concatenated.      *)
(* A table is [columns, rows]; a row maps every column of its table to a   *)
(* cell, <<v>> for the value v and NaN for a missing one.                  *)
(***************************************************************************)
MaxRows == 2         \* most rows in the table one runner returns

NaN == <<>>

\* pd.DataFrame(): no column, no row
EmptyFrame == [columns |-> {}, rows |-> <<>>]

\* pd.DataFrame(list of dicts): the columns are the keys of all the dicts
pd_DataFrame(dicts) ==
    LET cols == UNION {DOMAIN dicts[i] : i \in 1..Len(dicts)}
    IN  [columns |-> cols,
         rows |-> [i \in 1..Len(dicts) |->
                     [c \in cols |-> IF c \in DOMAIN dicts[i] THEN <<dicts[i][c]>> ELSE NaN]]]

\* a row of a table laid out over more columns
Reindex(row, cols) == [c \in cols |-> IF c \in DOMAIN row THEN row[c] ELSE NaN]

\* concatenation that puts the rows of the second table first
pd_concat_NewestFirst(df, bdf) ==
    LET cols == df.columns \cup bdf.columns
        all == bdf.rows \o df.rows
    IN  [columns |-> cols, rows |-> [i \in 1..Len(all) |-> Reindex(all[i], cols)]]

\* pd.concat([df, bdf]): the rows of df then those of bdf, over the union
\* of the columns
pd_concat(df, bdf) ==
    LET cols == df.columns \cup bdf.columns
        all == df.rows \o bdf.rows
    IN  [columns |-> cols, rows |-> [i \in 1..Len(all) |-> Reindex(all[i], cols)]]

\* records CPUBenchmarker.run may hold in self.results
CpuRecords ==
    {Update(parse_output(CpuText).data, CpuTags(<<1, 20000>>)),
     Update(parse_output(CpuText).data, CpuTags(<<2, 20000>>)),
     Update(parse_output(<<Line("CPU speed", <<>>, "")>>).data, CpuTags(<<1, DefaultCpuMaxPrime>>))}

\* records StorageBenchmarker.run_all_tests may hold in self.results
StRecords ==
    {Update(parse_output(FileioText).data,
            StTags([disk |-> d, blocksize |-> Block4k, workload |-> "seqwr",
                    threads |-> 4, flags |-> ("file-extra-flags" :> "dsync")],
                   MountPointOf(DefaultMountBase, d))) : d \in {DevA, DevB}}
    \cup
    {Update(parse_output(<<Line("File operations", <<>>, "")>>).data,
            StTags([disk |-> DevA, blocksize |-> Block16k, workload |-> "seqwr",
                    threads |-> 4, flags |-> ("file-extra-flags" :> "dsync")],
                   MountPointOf(DefaultMountBase, DevA)))}

\* records NetworkBenchmarker.run would hold in self.results_df
NetRecords ==
    {run_iperf_benchmark("eth0", "peer1", "1",
                         Ended("exit0", <<IperfLine("SUM", <<Col(10000, "Mbits")>>)>>)).rows[1],
     run_ping_benchmark("peer1", Ended("exit0", <<Lit("dec", 0, 123)>>)).rows[1]}

\* a list that holds the network runner too
Benchmarkers_WithNetwork(m) == <<"cpu", m.storage, "network">>

\* the list main iterates: [cpu, storage]; network is constructed and left out
Benchmarkers(m) == <<"cpu", m.storage>>

\* what b.run() may return: pd.DataFrame(self.results)
RunTables(b) ==
    {pd_DataFrame(rs) :
        rs \in {<<>>} \cup SeqsUpTo(IF b = "cpu" THEN CpuRecords
                                     ELSE IF b = "storage" THEN StRecords
                                     ELSE NetRecords, MaxRows)}

\* a loop that calls run() on whatever the list holds
IsNone_Never(b) == FALSE

\* `if b is None: continue`
IsNone(b) == b = "None"

\* cpu, storage (or None) and the empty df are built; the loop is at cpu
InitMain ==
    /\ runner = "main"
    /\ mainProc \in [pc : {"loop"}, i : {1}, storage : {"storage", "None"},
                     df : {EmptyFrame}, returned : {<<>>}, exc : {"none"}]
    /\ parserObj = IdleParser
    /\ net = IdleNet
    /\ cpuView = NoView
    /\ stView = NoView
    /\ prior = NoPrior
    /\ cpuConfig = <<>>
    /\ cpuPc = "idle"
    /\ cpuIdx = 0
    /\ cpuResults = <<>>
    /\ cpuParser = [built |-> FALSE, data |-> EmptyDict]
    /\ cpuInvoked = <<>>
    /\ cpuExc = "none"
    /\ stConfig = [disks |-> <<>>, blocksizes |-> AxisList(<<>>), workloads |-> <<>>,
                   threads |-> <<>>, flags |-> <<>>]
    /\ mount_base = DefaultMountBase
    /\ mount_points = <<>>
    /\ results = <<>>
    /\ stPc = "idle"
    /\ stIdx = 0
    /\ stExc = "none"
    /\ active = {}
    /\ calls = <<>>
    /\ lastStep = Step("none", 0, "ok")
    /\ raisedIn = {}
    /\ mountedByRun = {}
    /\ lastMount = NoMount
    /\ allOk = TRUE
    /\ active0 = {}

\* one pass of the loop for a benchmarker that is None: continue
MainSkip ==
    /\ runner = "main"
    /\ mainProc.pc = "loop"
    /\ mainProc.i <= Len(Benchmarkers(mainProc))
    /\ IsNone(Benchmarkers(mainProc)[mainProc.i])
    /\ mainProc' = [mainProc EXCEPT !.i = mainProc.i + 1]
    /\ UNCHANGED <<runner, parserObj, net, cpuView, stView, prior>>
    /\ UNCHANGED cpuVars
    /\ UNCHANGED stVars

\* one pass of the loop otherwise: bdf = b.run(); df = pd.concat([df, bdf]).
\* run() returns a table or raises; None has no run().
MainRun ==
    /\ runner = "main"
    /\ mainProc.pc = "loop"
    /\ mainProc.i <= Len(Benchmarkers(mainProc))
    /\ ~IsNone(Benchmarkers(mainProc)[mainProc.i])
    /\ LET b == Benchmarkers(mainProc)[mainProc.i]
       IN  IF b = "None"
           THEN mainProc' = [mainProc EXCEPT !.pc = "raised", !.exc = "AttributeError"]
           ELSE \/ \E bdf \in RunTables(b) :
                      mainProc' = [mainProc EXCEPT
                                      !.i = mainProc.i + 1,
                                      !.df = pd_concat(mainProc.df, bdf),
                                      !.returned = Append(mainProc.returned,
                                                          [b |-> b, bdf |-> bdf])]
                \/ mainProc' = [mainProc EXCEPT !.pc = "raised", !.exc = b]
    /\ UNCHANGED <<runner, parserObj, net, cpuView, stView, prior>>
    /\ UNCHANGED cpuVars
    /\ UNCHANGED stVars

\* df.to_csv("results.csv", index=False)
MainWrite ==
    /\ runner = "main"
    /\ mainProc.pc = "loop"
    /\ mainProc.i > Len(Benchmarkers(mainProc))
    /\ mainProc' = [mainProc EXCEPT !.pc = "written"]
    /\ UNCHANGED <<runner, parserObj, net, cpuView, stView, prior>>
    /\ UNCHANGED cpuVars
    /\ UNCHANGED stVars

NextMain == MainSkip \/ MainRun \/ MainWrite

SpecMain == InitMain /\ [][NextMain]_vars

(***************************************************************************)
(* The tabular views of the runners, asked for on an instance before its   *)
(* run() is called or after run() was left.                                *)
(***************************************************************************)
\* when the view is asked for: before run(), after run() returned, or after
\* an exception left run()
ViewTime(pc, first, exc) ==
    IF pc = first THEN "before" ELSE IF exc = "none" THEN "completed" ELSE "aborted"

\* the storage configurations of the views: one disk
ViewStConfigs == {c \in StConfigs : Len(c.disks) = 1}

\* a CPUBenchmarker or a StorageBenchmarker is constructed
InitViews ==
    /\ runner \in {"cpu", "storage"}
    /\ cpuConfig \in (IF runner = "cpu" THEN CpuConfigs ELSE {<<>>})
    /\ cpuPc = (IF runner = "cpu" THEN "run" ELSE "idle")
    /\ cpuIdx = (IF runner = "cpu" THEN 1 ELSE 0)
    /\ cpuResults = <<>>
    /\ cpuParser = [built |-> FALSE, data |-> EmptyDict]
    /\ cpuInvoked = <<>>
    /\ cpuExc = "none"
    /\ stConfig \in (IF runner = "storage" THEN ViewStConfigs
                     ELSE {[disks |-> <<>>, blocksizes |-> AxisList(<<>>), workloads |-> <<>>,
                            threads |-> <<>>, flags |-> <<>>]})
    /\ mount_base = DefaultMountBase
    /\ mount_points = <<>>
    /\ results = <<>>
    /\ stPc = (IF runner = "storage" THEN "mount" ELSE "idle")
    /\ stIdx = (IF runner = "storage" THEN 1 ELSE 0)
    /\ stExc = "none"
    /\ active = {}
    /\ active0 = {}
    /\ calls = <<>>
    /\ lastStep = Step("none", 0, "ok")
    /\ raisedIn = {}
    /\ mountedByRun = {}
    /\ lastMount = NoMount
    /\ allOk = TRUE
    /\ parserObj = IdleParser
    /\ net = IdleNet
    /\ mainProc = IdleMain
    /\ cpuView = NoView
    /\ stView = NoView
    /\ prior = NoPrior

\* CPUBenchmarker.get_resutls_df(): ValueError when self.parser is None,
\* else self.parser.to_dataframe(), the one-row table of the parser's data
CpuGetResultsDf ==
    /\ runner = "cpu"
    /\ (cpuPc = "run" /\ cpuInvoked = <<>>) \/ cpuPc = "done"
    /\ cpuView' = IF ~cpuParser.built
                  THEN View(ViewTime(cpuPc, "run", cpuExc), "ValueError", <<>>)
                  ELSE View(ViewTime(cpuPc, "run", cpuExc), "table", <<cpuParser.data>>)
    /\ UNCHANGED <<runner, parserObj, net, mainProc, stView, prior>>
    /\ UNCHANGED cpuVars
    /\ UNCHANGED stVars

\* StorageBenchmarker.get_results_dataframe(): pd.DataFrame(self.results)
StGetResultsDataframe ==
    /\ runner = "storage"
    /\ (stPc = "mount" /\ calls = <<>>) \/ stPc = "done"
    /\ stView' = View(ViewTime(stPc, "mount", stExc), "table", results)
    /\ UNCHANGED <<runner, parserObj, net, mainProc, cpuView, prior>>
    /\ UNCHANGED cpuVars
    /\ UNCHANGED stVars

NextViews == NextCPU \/ NextStorage \/ CpuGetResultsDf \/ StGetResultsDataframe

SpecViews == InitViews /\ [][NextViews]_vars

(***************************************************************************)
(* run() called again on the same instance.  Only __init__ assigns         *)
(* self.results; run() starts its loops anew over what the instance holds. *)
(***************************************************************************)
MaxRuns == 2         \* most run() calls on one instance

\* the configurations of the repeated runs: at most one combination
RerunCpuConfigs == {c \in CpuConfigs : Len(CpuCombos(c)) <= 1}

RerunStConfigs == {c \in StConfigs : Len(c.disks) = 1 /\ Len(Combos(c)) = 1}

\* a CPUBenchmarker or a StorageBenchmarker is constructed; its first run()
\* is at its start
InitRerun ==
    /\ runner \in {"cpu", "storage"}
    /\ cpuConfig \in (IF runner = "cpu" THEN RerunCpuConfigs ELSE {<<>>})
    /\ cpuPc = (IF runner = "cpu" THEN "run" ELSE "idle")
    /\ cpuIdx = (IF runner = "cpu" THEN 1 ELSE 0)
    /\ cpuResults = <<>>
    /\ cpuParser = [built |-> FALSE, data |-> EmptyDict]
    /\ cpuInvoked = <<>>
    /\ cpuExc = "none"
    /\ stConfig \in (IF runner = "storage" THEN RerunStConfigs
                     ELSE {[disks |-> <<>>, blocksizes |-> AxisList(<<>>), workloads |-> <<>>,
                            threads |-> <<>>, flags |-> <<>>]})
    /\ mount_base = DefaultMountBase
    /\ mount_points = <<>>
    /\ results = <<>>
    /\ stPc = (IF runner = "storage" THEN "mount" ELSE "idle")
    /\ stIdx = (IF runner = "storage" THEN 1 ELSE 0)
    /\ stExc = "none"
    /\ active = {}
    /\ active0 = {}
    /\ calls = <<>>
    /\ lastStep = Step("none", 0, "ok")
    /\ raisedIn = {}
    /\ mountedByRun = {}
    /\ lastMount = NoMount
    /\ allOk = TRUE
    /\ parserObj = IdleParser
    /\ net = IdleNet
    /\ mainProc = IdleMain
    /\ cpuView = NoView
    /\ stView = NoView
    /\ prior = NoPrior

\* a run() that starts with an empty results list
CpuRunAgain_ResultsCleared ==
    /\ runner = "cpu"
    /\ cpuPc = "done"
    /\ prior.runs < MaxRuns
    /\ prior' = Prior(prior.runs + 1, cpuResults)
    /\ cpuPc' = "run"
    /\ cpuIdx' = 1
    /\ cpuExc' = "none"
    /\ cpuResults' = <<>>
    /\ UNCHANGED <<runner, cpuConfig, cpuParser, cpuInvoked>>
    /\ UNCHANGED <<parserObj, net, mainProc, cpuView, stView>>
    /\ UNCHANGED stVars

\* CPUBenchmarker.run() is called again: the loop over the parameter sets
\* starts anew, self.results and self.parser are as the last call left them
CpuRunAgain ==
    /\ runner = "cpu"
    /\ cpuPc = "done"
    /\ prior.runs < MaxRuns
    /\ prior' = Prior(prior.runs + 1, cpuResults)
    /\ cpuPc' = "run"
    /\ cpuIdx' = 1
    /\ cpuExc' = "none"
    /\ UNCHANGED <<runner, cpuConfig, cpuResults, cpuParser, cpuInvoked>>
    /\ UNCHANGED <<parserObj, net, mainProc, cpuView, stView>>
    /\ UNCHANGED stVars

\* StorageBenchmarker.run() is called again: run_all_tests starts at its
\* mount loop, self.results and self.mount_points are as the last call left
\* them
StRunAgain ==
    /\ runner = "storage"
    /\ stPc = "done"
    /\ prior.runs < MaxRuns
    /\ prior' = Prior(prior.runs + 1, results)
    /\ stPc' = "mount"
    /\ stIdx' = 1
    /\ stExc' = "none"
    /\ UNCHANGED <<runner, stConfig, mount_base, mount_points, results, active, calls,
                   lastStep, raisedIn, mountedByRun, lastMount, allOk, active0>>
    /\ UNCHANGED <<parserObj, net, mainProc, cpuView, stView>>
    /\ UNCHANGED cpuVars

NextRerun == NextCPU \/ NextStorage \/ CpuRunAgain \/ StRunAgain

SpecRerun == InitRerun /\ [][NextRerun]_vars

(***************************************************************************)
(* Helpers of the claims.                                                  *)
(***************************************************************************)
\* the (threads, cpu-max-prime) pairs invoked so far, in order
CpuInvokedCombos == [i \in 1..Len(cpuInvoked) |-> <<cpuInvoked[i].threads, cpuInvoked[i].prime>>]

\* the text invocation i handed to the parser matches neither schema
CpuUnparsable(i) ==
    /\ cpuInvoked[i].outcome # "launch"
    /\ parse_output(cpuInvoked[i].out).raised

\* sysbench always started, and whenever it exited 0 its stdout was parseable:
\* the only failures of the sweep are nonzero exits
CpuOnlyNonzeroFailures ==
    \A i \in 1..Len(cpuInvoked) :
        /\ cpuInvoked[i].outcome # "launch"
        /\ cpuInvoked[i].outcome = "ok" => ~parse_output(cpuInvoked[i].out).raised

SysbenchOps == {"prepare", "run", "cleanup"}

\* the positions of the calls with the given op
CallsOf(op) == {i \in 1..Len(calls) : calls[i].op = op}

\* C1: when CPUBenchmarker.run has ended and every failure of the sweep was a
\* nonzero exit of sysbench, each combination of the Cartesian product was
\* invoked exactly once, in order, and results holds exactly one record for
\* it, tagged with it: no failed invocation stopped the sweep.
C1_EachCombinationInvokedAndRecorded ==
    (runner = "cpu" /\ cpuPc = "done" /\ CpuOnlyNonzeroFailures) =>
        /\ CpuInvokedCombos = CpuCombos(cpuConfig)
        /\ Len(cpuResults) = Len(CpuCombos(cpuConfig))
        /\ \A i \in 1..Len(cpuResults) :
              /\ cpuResults[i]["threads"] = CpuCombos(cpuConfig)[i][1]
              /\ cpuResults[i]["cpu-max-prime"] = CpuCombos(cpuConfig)[i][2]

\* C2: whatever tool invocations of the combinations fail (nonzero exit or
\* launch failure), the CPU sweep and the storage sweep run to completion:
\* once run() is left, no exception of a combination has escaped it and every
\* combination was attempted.
C2_SweepAlwaysCompletes ==
    /\ (runner = "cpu" /\ cpuPc = "done") =>
          /\ cpuExc = "none"
          /\ CpuInvokedCombos = CpuCombos(cpuConfig)
    /\ (runner = "storage" /\ stPc = "done"
            /\ raisedIn \cap {"mount_disk", "unmount_disk"} = {}) =>
          /\ stExc = "none"
          /\ \A k \in 1..Len(Combos(stConfig)) :
                \E i \in CallsOf("run") : calls[i].k = k

\* C3: when the text handed to the parser matches neither schema, the runner
\* still appends a record carrying only the combination's parameters and goes
\* on; the parser's ValueError never leaves run().
C3_UnparsableOutputStillRecorded ==
    /\ runner = "cpu" =>
          /\ cpuExc # "ValueError"
          /\ \A i \in 1..Len(cpuInvoked) :
                CpuUnparsable(i) =>
                    /\ Len(cpuResults) >= i
                    /\ cpuResults[i] = CpuTags(CpuInvokedCombos[i])
    /\ runner = "storage" =>
          /\ stExc # "ValueError"
          /\ (lastStep.op = "run" /\ lastStep.outcome = "unparsed") =>
                /\ stPc = "cleanup"
                /\ Len(results) >= 1
                /\ results[Len(results)] =
                      StTags(Combos(stConfig)[lastStep.k],
                             DictGet(mount_points, Combos(stConfig)[lastStep.k].disk,
                                     Combos(stConfig)[lastStep.k].disk))

\* C4: if a prepare, run or cleanup step raised, then by the time
\* run_all_tests is left unmount_disk was called for every entry of
\* mount_points.
C4_UnmountCalledForEveryEntryAfterSweepRaise ==
    (runner = "storage" /\ stPc = "done" /\ raisedIn \cap SysbenchOps # {}) =>
        \A j \in 1..Len(mount_points) :
            \E i \in CallsOf("unmount_disk") : calls[i].k = j

\* C5: every mount point the runner mounted in the mount-all phase has had
\* its umount attempted by the time run_all_tests is left, on every path.
C5_EveryMountedDeviceUnmounted ==
    (runner = "storage" /\ stPc = "done") =>
        \A mp \in mountedByRun :
            \E i \in CallsOf("umount") : calls[i].path = mp

\* the calls a step appends to the log
NewCalls == SubSeq(calls', Len(calls) + 1, Len(calls'))

NewOps == {NewCalls[i].op : i \in 1..Len(NewCalls)}

\* C6: every sysbench prepare/run/cleanup invocation comes after mount_disk
\* was called for every configured disk and before every unmount_disk call
\* and every umount.
C6_MountAllThenSweepThenUnmount ==
    runner = "storage" =>
        \A i \in 1..Len(calls) :
            calls[i].op \in SysbenchOps =>
                /\ \A d \in 1..Len(stConfig.disks) :
                      \E j \in 1..(i - 1) : calls[j].op = "mount_disk" /\ calls[j].k = d
                /\ \A j \in 1..Len(calls) :
                      calls[j].op \in {"unmount_disk", "umount"} => j > i

\* a finished run over two disks that swept two combinations and then
\* attempted an umount
C6_Witness ==
    /\ runner = "storage"
    /\ stPc = "done"
    /\ Len(stConfig.disks) = 2
    /\ Cardinality(CallsOf("cleanup")) >= 2
    /\ CallsOf("umount") # {}

MountCallsFor(dev) == {i \in CallsOf("mount") : calls[i].dev = dev}

UnmountDiskCallsFor(dev) == {i \in CallsOf("unmount_disk") : calls[i].dev = dev}

\* mount_points holds at most one entry per device path
KeysUnique ==
    \A i, j \in 1..Len(mount_points) :
        mount_points[i][1] = mount_points[j][1] => i = j

\* a probe that found the mount point active is not followed by mkfs or mount
ActiveMountReused ==
    \A i \in CallsOf("mountpoint") :
        (calls[i].k = 0 /\ i < Len(calls)) => calls[i + 1].op \notin {"mkfs.ext4", "mount"}

\* every umount is the one of an unmount_disk call for that path
UmountOnlyInUnmountDisk ==
    \A i \in CallsOf("umount") :
        /\ i > 1
        /\ calls[i - 1].op = "unmount_disk"
        /\ calls[i - 1].path = calls[i].path

\* C7 (as claimed): the mount tool is invoked at most once per device path,
\* umount is attempted at most once per device path, a device path is never
\* bound to two different mount points, and an active mount point is reused.
C7_MountOncePerDevice ==
    runner = "storage" =>
        /\ \A dev \in Range(stConfig.disks) :
              /\ Cardinality(MountCallsFor(dev)) <= 1
              /\ Cardinality(UnmountDiskCallsFor(dev)) <= 1
        /\ UmountOnlyInUnmountDisk
        /\ KeysUnique
        /\ \A i, j \in CallsOf("mount_disk") :
              (calls[i].dev = calls[j].dev /\ calls[i].path # <<>> /\ calls[j].path # <<>>)
                  => calls[i].path = calls[j].path
        /\ ActiveMountReused

\* C7 (amended): the mount tool is invoked at most once per entry of the
\* disks list and only after a probe of the same mount_disk call found no
\* active mount; umount is attempted at most once per device path;
\* mount_points holds at most one entry per device path; an active mount
\* point is reused rather than mounted again.
C7_MountOncePerDisksEntry ==
    runner = "storage" =>
        /\ \A dev \in Range(stConfig.disks) :
              /\ Cardinality(MountCallsFor(dev)) <=
                    Cardinality({d \in 1..Len(stConfig.disks) : stConfig.disks[d] = dev})
              /\ Cardinality(UnmountDiskCallsFor(dev)) <= 1
        /\ \A i \in CallsOf("mount") :
              /\ i > 2
              /\ calls[i - 2].op = "mountpoint"
              /\ calls[i - 2].dev = calls[i].dev
              /\ calls[i - 2].k = 1
        /\ UmountOnlyInUnmountDisk
        /\ KeysUnique
        /\ ActiveMountReused

\* a finished run that named one device twice and invoked mount for it twice
C7_Witness ==
    /\ runner = "storage"
    /\ stPc = "done"
    /\ \E dev \in Range(stConfig.disks) : Cardinality(MountCallsFor(dev)) = 2
    /\ CallsOf("umount") # {}

\* C8: after a storage sweep that completed, results holds exactly one record
\* per combination whose run step was attempted, in the order attempted,
\* whether the run step failed or not.
C8_OneRecordPerAttemptedCombination ==
    (runner = "storage" /\ stPc = "done" /\ stExc = "none") =>
        /\ Len(results) = Cardinality(CallsOf("run"))
        /\ \A i \in 1..Len(results) :
              /\ results[i]["disk"] = Combos(stConfig)[i].disk
              /\ results[i]["blocksize"] = Combos(stConfig)[i].blocksize

\* C9: a prepare or cleanup step whose tool exits nonzero neither aborts the
\* sweep nor changes results: after a failed prepare the run step of the same
\* combination is next, after a failed cleanup the next combination (or the
\* normal end of the sweep) is next; results changes in run steps only.
C9_PrepareCleanupFailuresSwallowed ==
    [][ /\ (calls' # calls /\ lastStep'.op = "prepare" /\ lastStep'.outcome = "nonzero") =>
              /\ stPc' = "run"
              /\ stIdx' = stIdx
              /\ stExc' = "none"
              /\ results' = results
        /\ (calls' # calls /\ lastStep'.op = "cleanup" /\ lastStep'.outcome = "nonzero") =>
              /\ stExc' = "none"
              /\ results' = results
              /\ IF stIdx < Len(Combos(stConfig))
                 THEN stPc' = "prepare" /\ stIdx' = stIdx + 1
                 ELSE stPc' \in {"unmount", "done"}
        /\ results' # results =>
              /\ lastStep'.op = "run"
              /\ lastStep'.outcome = "ok"
              /\ Len(results') = Len(results) + 1
      ]_vars

\* the cleanup of a combination exited nonzero and the next combination is
\* about to be prepared, with the records of the earlier runs in place
C9_Witness ==
    /\ runner = "storage"
    /\ lastStep.op = "cleanup"
    /\ lastStep.outcome = "nonzero"
    /\ stPc = "prepare"
    /\ stIdx >= 2
    /\ Len(results) >= 1

\* a step of the mount loop: mount_disk is called on disks[stIdx]
MountDiskCalled == calls' # calls /\ stPc = "mount"

\* the value that call returns (<<>> when it raises)
Returned == calls'[Len(calls) + 1].path

\* the call before it was made on the same device
SuccessiveCall ==
    /\ stIdx >= 2
    /\ stConfig.disks[stIdx - 1] = stConfig.disks[stIdx]
    /\ lastStep.op = "mount_disk"
    /\ lastStep.k = stIdx - 1

\* the value the call before it returned
ReturnedBefore ==
    calls[CHOOSE i \in CallsOf("mount_disk") : calls[i].k = stIdx - 1].path

MountCalled == lastMount.dev # <<>>

\* the probe of the last mount_disk call reported an active mount
ProbeFoundActive == lastMount.probe = "ok" /\ lastMount.mkfs = "none"

\* C11: mount_disk never raises on a mount failure: when the mountpoint probe
\* or the mount call fails it returns the raw device path, and it returns the
\* mount point under mount_base only when the mount call succeeded or the
\* probe reported an active mount.
C11_MountDiskNeverRaises ==
    MountCalled =>
        /\ lastMount.raised = "none"
        /\ (lastMount.probe \in {"nonzero", "launch"} \/ lastMount.mnt \in {"nonzero", "launch"})
              => lastMount.ret = lastMount.dev
        /\ lastMount.ret = MountPointOf(mount_base, lastMount.dev)
              => (lastMount.mnt = "ok" \/ ProbeFoundActive)

\* the step is a mount_disk call of the mount loop
MountStep == calls' # calls /\ lastStep'.op = "mount_disk"

\* C12: when creating the mount-point directory fails, mount_disk returns the
\* raw device path unchanged and invokes no external tool at all: the call
\* adds nothing but its own entry to the log of calls, leaves the active
\* mounts alone, and the device is bound to its own path.
C12_MkdirFailureReturnsDevice ==
    [][ (MountStep /\ ~lastMount'.mkdir) =>
            LET dev == stConfig.disks[stIdx]
            IN  /\ lastMount'.dev = dev
                /\ lastMount'.raised = "none"
                /\ lastMount'.ret = dev
                /\ calls' = Append(calls, Call("mount_disk", dev, dev, stIdx))
                /\ active' = active
                /\ DictGet(mount_points', dev, <<>>) = dev
      ]_vars

\* a mount_disk call whose os.makedirs failed has just returned
C12_Witness ==
    /\ lastStep.op = "mount_disk"
    /\ MountCalled
    /\ ~lastMount.mkdir
    /\ lastMount.ret = lastMount.dev

\* C13: a failure of filesystem creation inside mount_disk is swallowed: the
\* mount call is still attempted afterwards, and the value returned depends
\* only on the outcome of that mount call (the mount point when it succeeded,
\* the raw device path when it exited nonzero).
C13_MkfsFailureSwallowed ==
    (MountCalled /\ lastMount.mkfs \in {"nonzero", "launch"}) =>
        /\ lastMount.mnt # "none"
        /\ lastMount.mnt = "ok" => lastMount.ret = MountPointOf(mount_base, lastMount.dev)
        /\ lastMount.mnt = "nonzero" => lastMount.ret = lastMount.dev

\* the devices bound to their own path: mount_disk fell back to the raw device
FellBack == {mount_points[j][1] : j \in {k \in 1..Len(mount_points) :
                                            mount_points[k][2] = mount_points[k][1]}}

\* C14: umount is invoked only for paths under mount_base, and never on the
\* raw device path of a device whose mount_disk fell back to that path.
C14_NoUmountOnRawDevice ==
    \A i \in CallsOf("umount") :
        /\ startswith(calls[i].path, mount_base)
        /\ calls[i].path \notin FellBack

\* the finally clause of run_all_tests was entered
UnmountPhaseEntered == CallsOf("unmount_disk") # {}

\* C15: a failed umount never raises out of unmount_disk, and a failure to
\* unmount one mount point does not prevent the unmount attempts for the
\* remaining mount points: once the unmount phase is over, unmount_disk was
\* called for every entry of mount_points.
C15_UmountFailureNeverRaises ==
    /\ "unmount_disk" \notin raisedIn
    /\ (stPc = "done" /\ UnmountPhaseEntered) =>
          \A j \in 1..Len(mount_points) :
              \E i \in CallsOf("unmount_disk") : calls[i].k = j

IsPrepare(c) == c.op = "prepare"

\* the combinations attempted so far, by their index in the product, in order
Attempted ==
    LET ps == SelectSeq(calls, IsPrepare) IN [i \in 1..Len(ps) |-> ps[i].k]

\* the tags of a record that name its combination
TagsOf(rec) ==
    <<rec["disk"], rec["blocksize"], rec["workload"], rec["threads"], rec["flags"]>>

ComboTags(combo) ==
    <<combo.disk, combo.blocksize, combo.workload, combo.threads,
      combo.flags["file-extra-flags"]>>

\* a is b with some elements left out
RECURSIVE IsSubSeq(_, _)
IsSubSeq(a, b) ==
    IF a = <<>> THEN TRUE
    ELSE IF b = <<>> THEN FALSE
    ELSE IF Head(a) = Head(b) THEN IsSubSeq(Tail(a), Tail(b))
    ELSE IsSubSeq(a, Tail(b))

\* C16: once run_all_tests has ended the sweep has attempted each combination
\* of the Cartesian product exactly once, in product order (disks slowest,
\* flags fastest), and the records of results follow the order in which
\* their combinations were attempted.
C16_EachCombinationAttemptedOnceInOrder ==
    (runner = "storage" /\ stPc = "done") =>
        /\ Attempted = [i \in 1..Len(Combos(stConfig)) |-> i]
        /\ IsSubSeq([i \in 1..Len(results) |-> TagsOf(results[i])],
                    [i \in 1..Len(Combos(stConfig)) |-> ComboTags(Combos(stConfig)[i])])

\* C17: every record the storage runner appends carries disk, blocksize,
\* workload, threads and flags equal to the values of the combination whose
\* run step produced it (flags being its file-extra-flags value), and the
\* records already in results are never changed afterwards.
C17_RecordsTaggedWithTheirCombination ==
    [][ results' # results =>
            LET combo == Combos(stConfig)[stIdx]
                rec == results'[Len(results')]
            IN  /\ stPc = "run"
                /\ Len(results') = Len(results) + 1
                /\ SubSeq(results', 1, Len(results)) = results
                /\ rec["disk"] = combo.disk
                /\ rec["blocksize"] = combo.blocksize
                /\ rec["workload"] = combo.workload
                /\ rec["threads"] = combo.threads
                /\ rec["flags"] = combo.flags["file-extra-flags"]
      ]_vars

\* a finished sweep that recorded two combinations with different tags on a
\* device mounted under mount_base
C17_Witness ==
    /\ stPc = "done"
    /\ Len(results) >= 2
    /\ TagsOf(results[1]) # TagsOf(results[2])
    /\ results[1]["mount_point"] # results[1]["disk"]

ToolOps == {"mountpoint", "mkfs.ext4", "mount", "umount", "prepare", "run", "cleanup"}

\* the number of external tool invocations made so far
ToolCalls == Cardinality({i \in 1..Len(calls) : calls[i].op \in ToolOps})

\* run_all_tests has ended, no mount point was active before it, and
\* os.makedirs and every external call succeeded
CleanRunEnded == runner = "storage" /\ stPc = "done" /\ allOk /\ active0 = {}

ListForm(param_set) ==
    IF param_set.prime.kind = "scalar"
    THEN [param_set EXCEPT !.prime = PrimeList(<<param_set.prime.v[1]>>)]
    ELSE param_set

ListFormConfig == [s \in 1..Len(cpuConfig) |-> ListForm(cpuConfig[s])]

\* C19: a parameter set whose cpu-max-prime is the scalar v drives the same
\* invocations and yields the same records as one whose cpu-max-prime is
\* [v]: with threads [t1..tn] that is the n combinations (t1, v) .. (tn, v),
\* in the order of the threads list.
C19_ScalarPrimeAsOneElementList ==
    /\ CpuCombos(cpuConfig) = CpuCombos(ListFormConfig)
    /\ \A s \in 1..Len(cpuConfig) :
          cpuConfig[s].prime.kind = "scalar" =>
              ParamSetCombos(cpuConfig[s]) =
                  [i \in 1..Len(cpuConfig[s].threads) |->
                      <<cpuConfig[s].threads[i], cpuConfig[s].prime.v[1]>>]
    /\ \A i \in 1..Len(cpuInvoked) :
          CpuInvokedCombos[i] = CpuCombos(ListFormConfig)[i]
    /\ \A i \in 1..Len(cpuResults) :
          cpuResults[i] = Update(parse_output(cpuInvoked[i].out).data,
                                 CpuTags(CpuCombos(ListFormConfig)[i]))

\* a finished sweep over threads [1, 2] with the scalar cpu-max-prime 20000
C19_Witness ==
    /\ cpuPc = "done"
    /\ cpuExc = "none"
    /\ cpuConfig = <<[threads |-> <<1, 2>>, prime |-> PrimeScalar(20000)]>>
    /\ Len(cpuResults) = 2
    /\ cpuResults[2]["cpu-max-prime"] = 20000

\* an axis value as the sequence it stands for: a scalar is the one-element
\* sequence holding it
OneElementForm(x) == IF x.kind = "list" THEN x.v ELSE <<x.v>>

\* the combinations of the storage sweep with every scalar taken so
ScalarAwareCombos(config) ==
    Product5(config.disks, OneElementForm(config.blocksizes), config.workloads,
             config.threads, config.flags)

\* C20: a value given in the configuration as a scalar is expanded exactly as
\* the one-element sequence holding it: every combination the storage sweep
\* attempts is the combination at that place of the product over the
\* one-element forms, and the CPU sweep invokes the combinations of the
\* configuration with each scalar written as a list.
C20_ScalarAxisAsOneElementSequence ==
    /\ runner = "storage" =>
          \A i \in 1..Len(Attempted) :
              /\ Attempted[i] <= Len(ScalarAwareCombos(stConfig))
              /\ ComboTags(Combos(stConfig)[Attempted[i]])
                    = ComboTags(ScalarAwareCombos(stConfig)[Attempted[i]])
    /\ runner = "cpu" =>
          \A i \in 1..Len(cpuInvoked) :
              CpuInvokedCombos[i] = CpuCombos(ListFormConfig)[i]

\* the markers of the two schemas
HasFileioMarker(text) == Contains(text, "File operations")

HasCpuMarker(text) == Contains(text, "CPU speed") \/ Contains(text, "events per second")

\* parse_output has been called on the parser
Parsed == parserObj.pc \in {"returned", "raised"}

\* C21: parse_output classifies by first match in a fixed order: a text with
\* "File operations" is parsed with the file-I/O schema even when it also
\* holds a CPU marker; otherwise a text with either CPU marker is parsed with
\* the CPU schema; otherwise parsing fails.
C21_ClassifiedByFirstMatch ==
    Parsed =>
        LET text == parserObj.text_output
        IN  IF HasFileioMarker(text)
            THEN /\ parserObj.pc = "returned"
                 /\ parserObj.data = ExtractFields(FileioPatterns, text)
            ELSE IF HasCpuMarker(text)
            THEN /\ parserObj.pc = "returned"
                 /\ parserObj.data = ExtractFields(CpuPatterns, text)
            ELSE parserObj.pc = "raised"

\* a text with both markers was parsed with the file-I/O schema: its
\* "reads/s" line is in the record, its "events per second" line is not
C21_Witness ==
    /\ parserObj.pc = "returned"
    /\ HasFileioMarker(parserObj.text_output)
    /\ Contains(parserObj.text_output, "events per second")
    /\ "reads/s" \in DOMAIN parserObj.data
    /\ "events_per_second" \notin DOMAIN parserObj.data

\* C22: parse_output on the empty text, and on every text that holds neither
\* schema marker, fails with ValueError and leaves the data mapping empty.
C22_UnsupportedTextFails ==
    (Parsed /\ ~HasFileioMarker(parserObj.text_output)
            /\ ~HasCpuMarker(parserObj.text_output)) =>
        /\ parserObj.pc = "raised"
        /\ DOMAIN parserObj.data = {}

\* parse_output failed on a text that has a labelled numeric line but no marker
C22_Witness ==
    /\ parserObj.pc = "raised"
    /\ Contains(parserObj.text_output, "min")
    /\ DOMAIN parserObj.data = {}

\* the fields of a field table whose labelled numeric line occurs in the
\* text: the label followed by a number (by two, "a/b", for a stddev field)
FieldsPresent(patterns, text) ==
    {p.key : p \in {q \in patterns :
        \E i \in 1..Len(text) :
            /\ text[i].label = q.label
            /\ Len(text[i].lits) >= (IF q.cap = "second" THEN 2 ELSE 1)}}

\* the field table of the schema a text is classified into
SchemaOf(text) == IF HasFileioMarker(text) THEN FileioPatterns ELSE CpuPatterns

\* C23: for a text classified into a schema the keys of the record returned
\* are exactly the fields of that schema whose labelled numeric line occurs
\* in the text, whether the literal has a decimal point or not; no key
\* outside the schema appears, and the record is empty exactly when no
\* recognised field occurs.
C23_KeysAreTheFieldsPresent ==
    parserObj.pc = "returned" =>
        LET text == parserObj.text_output
            present == FieldsPresent(SchemaOf(text), text)
        IN  /\ DOMAIN parserObj.data = present
            /\ DOMAIN parserObj.data \subseteq {p.key : p \in SchemaOf(text)}
            /\ (DOMAIN parserObj.data = {}) <=> (present = {})

\* the (workload, peer, interface, threads) tuple of a row and of a call
RowTuple(row) == <<row.workload, row.peer, row.interface, row.threads>>

CallTuple(call) ==
    IF call.tool = "iperf"
    THEN <<"iperf", call.peer, call.interface, call.threads>>
    ELSE <<call.tool, call.peer, NoneStr, NoneStr>>

\* NetworkBenchmarker.run has returned
NetRunReturned == runner = "network" /\ net.pc = "done" /\ net.exc = "none"

\* the calls of the log: its events that are not sleeps
NetInvocations == {i \in 1..Len(net.log) : net.log[i].ev # "sleep"}

\* C24: run appends exactly one record per (workload, peer, interface-or-
\* none, thread-or-none) tuple: no tuple gets two records, and no tuple
\* whose tool exited 0 is left without a record.
C24_OneRecordPerTuple ==
    NetRunReturned =>
        /\ \A i, j \in 1..Len(net.results_df) :
              i # j => RowTuple(net.results_df[i]) # RowTuple(net.results_df[j])
        /\ \A i \in NetInvocations :
              net.log[i].kind = "exit0" =>
                  \E n \in 1..Len(net.results_df) :
                      RowTuple(net.results_df[n])
                          = CallTuple(NetCalls(net.config)[net.log[i].k])

\* C25: the run_*_benchmark methods never raise, whether the tool exits
\* nonzero or launching it raises: no exception leaves run(), and once run()
\* has ended every call of the sweep was made, in order.
C25_NetworkMethodsNeverRaise ==
    runner = "network" =>
        /\ net.exc = "none"
        /\ net.pc = "done" =>
              /\ Cardinality(NetInvocations) = Len(NetCalls(net.config))
              /\ \A i \in NetInvocations :
                    net.log[i].k = Cardinality({j \in NetInvocations : j <= i})

\* run() went on to a next call after a call whose launch raised, and after
\* a call that exited nonzero
C25_Witness ==
    /\ NetRunReturned
    /\ \E i, j \in NetInvocations :
          /\ i < j
          /\ net.log[i].kind = "exception"
          /\ net.log[j].kind = "nonzero"
    /\ net.log[Len(net.log)].ev = "sleep"

\* C26: when a network tool exits nonzero the runner still records the
\* attempt: a row for that (workload, peer, interface, threads) tuple is in
\* the result collection.
C26_FailedInvocationRecorded ==
    runner = "network" =>
        \A i \in NetInvocations :
            (net.log[i].kind = "nonzero" /\ (i < Len(net.log) \/ net.pc # "invoke")) =>
                \E n \in 1..Len(net.results_df) :
                    RowTuple(net.results_df[n])
                        = CallTuple(NetCalls(net.config)[net.log[i].k])

\* C27: a delay separates any two successive tool invocations: in the log
\* every call is followed by the sleep of that call before anything else,
\* whether it succeeded or failed, and a run that has returned ended on one.
C27_SleepAfterEveryInvocation ==
    runner = "network" =>
        /\ \A i \in NetInvocations :
              i < Len(net.log) =>
                  /\ net.log[i + 1].ev = "sleep"
                  /\ net.log[i + 1].k = net.log[i].k
        /\ (net.pc = "done" /\ net.log # <<>>) => net.log[Len(net.log)].ev = "sleep"
        /\ (net.pc = "invoke" /\ net.log # <<>>) => net.log[Len(net.log)].ev = "sleep"

\* a call that failed and the call after it, with the sleep between them
C27_Witness ==
    /\ runner = "network"
    /\ Len(net.log) >= 3
    /\ net.log[1].kind \in {"nonzero", "exception"}
    /\ net.log[2].ev = "sleep"
    /\ net.log[3].ev # "sleep"
    /\ net.log[3].kind = "exit0"

\* an iperf3 call has just returned after the tool exited 0
IperfSucceeded ==
    /\ runner = "network"
    /\ net.pc = "sleep"
    /\ net.log[Len(net.log)].ev = "iperf"
    /\ net.last.kind = "exit0"

\* the bandwidth of the record that call appended
RecordedBandwidth == net.results_df[Len(net.results_df)].bandwidth

\* a [SUM] line that reports a figure in Mbits or Gbits
ReportsBandwidth(line) ==
    line.tag = "SUM" /\ \E c \in 1..Len(line.cols) : line.cols[c].unit \in {"Mbits", "Gbits"}

\* the figure a line reports, in Mbits per second
InMbits(line) ==
    LET c == CHOOSE c \in 1..Len(line.cols) :
                 /\ line.cols[c].unit \in {"Mbits", "Gbits"}
                 /\ \A d \in 1..(c - 1) : line.cols[d].unit \notin {"Mbits", "Gbits"}
    IN  IF line.cols[c].unit = "Gbits"
        THEN Num(line.cols[c].fig * 1000, 100)
        ELSE Num(line.cols[c].fig, 100)

SumLines(stdout) == {i \in 1..Len(stdout) : ReportsBandwidth(stdout[i])}

\* C28: a successful iperf3 run records the figure of the [SUM]
\* summary line, the last [SUM] line of the output, in Mbits per second, and
\* None when no [SUM] line carries a figure.
C28_BandwidthOfSummaryLine ==
    IperfSucceeded =>
        LET out == net.last.stdout
        IN  IF SumLines(out) = {} THEN RecordedBandwidth = NoneNum
            ELSE RecordedBandwidth
                     = InMbits(out[CHOOSE i \in SumLines(out) : \A j \in SumLines(out) : j <= i])

\* the rows the runners returned, in the order main ran them
ReturnedRows == Concat([n \in 1..Len(mainProc.returned) |-> mainProc.returned[n].bdf.rows])

\* the columns of the table row n of ReturnedRows came from
OwnColumns(n) == DOMAIN ReturnedRows[n]

\* C29: main concatenates the runners' tables in the order the runners are
\* run: every CPU row precedes every storage row and the rows of a runner keep
\* their order; a storage runner that is None is skipped without error; a row
\* lacking a column another row has gets an empty cell, never an error.
C29_TablesConcatenatedInRunOrder ==
    runner = "main" =>
        /\ mainProc.exc \in {"none", "cpu", "storage"}
        /\ mainProc.pc = "written" =>
              /\ [n \in 1..Len(mainProc.returned) |-> mainProc.returned[n].b]
                    = IF mainProc.storage = "None" THEN <<"cpu">> ELSE <<"cpu", "storage">>
              /\ Len(mainProc.df.rows) = Len(ReturnedRows)
              /\ \A n \in 1..Len(ReturnedRows) :
                    /\ DOMAIN mainProc.df.rows[n] = mainProc.df.columns
                    /\ OwnColumns(n) \subseteq mainProc.df.columns
                    /\ \A c \in mainProc.df.columns :
                          mainProc.df.rows[n][c]
                              = IF c \in OwnColumns(n) THEN ReturnedRows[n][c] ELSE NaN

\* main wrote a table of CPU rows and storage rows, where a CPU row has an
\* empty cell in a column only the storage rows have
C29_Witness ==
    /\ runner = "main"
    /\ mainProc.pc = "written"
    /\ Len(mainProc.returned) = 2
    /\ Len(mainProc.returned[1].bdf.rows) = 2
    /\ Len(mainProc.returned[2].bdf.rows) = 2
    /\ mainProc.df.rows[1]["disk"] = NaN
    /\ mainProc.df.rows[3]["disk"] # NaN
    /\ mainProc.df.rows[3]["cpu-max-prime"] = NaN

\* the answer a view gave fits the time it was asked: a table after a run
\* has completed, a missing-results error otherwise
ViewAsClaimed(view) ==
    view.at # "never" =>
        IF view.at = "completed" THEN view.result = "table" ELSE view.result = "ValueError"

\* C30: for each runner that offers a tabular view, asking for the view on an
\* instance on which no run has completed fails with a missing-results error
\* instead of returning a table, and asking after a run has completed
\* succeeds.
C30_ViewOnlyAfterCompletedRun == ViewAsClaimed(cpuView) /\ ViewAsClaimed(stView)

IsSysbenchCall(c) == c.op \in SysbenchOps

\* the prepare, run and cleanup invocations made so far, in order
SweepCalls == SelectSeq(calls, IsSysbenchCall)

\* C31: for every combination of the storage sweep the steps occur in the
\* order prepare, run, cleanup, each exactly once, the cleanup coming before
\* the next prepare and before any umount, and cleanup is invoked for every
\* combination whose prepare was invoked, whatever became of its run step
\* and of parsing its output: whenever no combination is under way, the
\* sysbench invocations made so far are whole prepare, run, cleanup triples.
C31_PrepareRunCleanupForEveryCombination ==
    (runner = "storage" /\ stPc \notin {"run", "cleanup"}) =>
        /\ Len(SweepCalls) % 3 = 0
        /\ \A j \in 1..(Len(SweepCalls) \div 3) :
              /\ SweepCalls[3 * j - 2].op = "prepare" /\ SweepCalls[3 * j - 2].k = j
              /\ SweepCalls[3 * j - 1].op = "run" /\ SweepCalls[3 * j - 1].k = j
              /\ SweepCalls[3 * j].op = "cleanup" /\ SweepCalls[3 * j].k = j
        /\ \A i \in CallsOf("umount"), n \in 1..Len(calls) :
              IsSysbenchCall(calls[n]) => n < i

\* a is the beginning of b
IsPrefix(a, b) == Len(a) <= Len(b) /\ SubSeq(b, 1, Len(a)) = a

\* the records the CPU sweep under way, or just ended, has to append: one per
\* invocation that was parsed, tagged with its combination
CpuSweepRecords ==
    LET n0 == Len(cpuInvoked) - (cpuIdx - 1)
    IN  [i \in 1..(cpuIdx - 1) |->
            Update(parse_output(cpuInvoked[n0 + i].out).data,
                   CpuTags(CpuCombos(cpuConfig)[i]))]

UnderMountBase == {j \in 1..Len(mount_points) : startswith(mount_points[j][2], mount_base)}

\* C33: at the end of run_all_tests umount has been attempted for every
\* device whose recorded mount point lies under mount_base, the devices whose
\* mount point mount_disk found already active and did not mount itself
\* included.
C33_UmountForEveryRecordedMountPoint ==
    (runner = "storage" /\ stPc = "done") =>
        \A j \in UnderMountBase :
            \E i \in CallsOf("umount") : calls[i].path = mount_points[j][2]

\* get_resutls_df was asked for after a CPU sweep had ended
AskedAfterCpuSweep == runner = "cpu" /\ cpuView.at \in {"completed", "aborted"}

\* C34: after a CPU sweep in which N >= 1 outputs were parsed, get_resutls_df
\* returns a one-row table holding only the record of the most recently
\* parsed combination, its threads and cpu-max-prime tags included, not the N
\* rows run() returns; after a sweep with zero combinations it raises the
\* no-results error.
C34_ViewHoldsLastParsedRecord ==
    AskedAfterCpuSweep =>
        /\ cpuResults # <<>> =>
              /\ cpuView.result = "table"
              /\ cpuView.rows = <<cpuResults[Len(cpuResults)]>>
        /\ CpuCombos(cpuConfig) = <<>> => cpuView.result = "ValueError"

\* the columns only the rows of the network runner have
NetworkColumns == {"interface", "peer", "avg_latency", "p95_latency", "bandwidth"}

\* C35: main constructs a NetworkBenchmarker and never calls its run(): the
\* only runners whose run() main calls are the CPU and the storage runner,
\* the network runner makes no call, and the table main builds and writes
\* holds no row of the network runner.
C35_MainNeverRunsNetwork ==
    runner = "main" =>
        /\ net = IdleNet
        /\ \A n \in 1..Len(mainProc.returned) : mainProc.returned[n].b \in {"cpu", "storage"}
        /\ mainProc.df.columns \cap NetworkColumns = {}
        /\ Len(mainProc.df.rows)
              = Len(Concat([n \in 1..Len(mainProc.returned) |-> mainProc.returned[n].bdf.rows]))

\* main has written a table with rows of the CPU runner and of the storage
\* runner
C35_Witness ==
    /\ runner = "main"
    /\ mainProc.pc = "written"
    /\ [n \in 1..Len(mainProc.returned) |-> mainProc.returned[n].b] = <<"cpu", "storage">>
    /\ mainProc.returned[1].bdf.rows # <<>>
    /\ mainProc.returned[2].bdf.rows # <<>>
    /\ "threads" \in mainProc.df.columns
====
